---------------------------- MODULE Spec2Model ----------------------------
(***************************************************************************)
(* A model of newsletter.py: the daily news digest.  One run of rotina()   *)
(* passes the schedule gate, acquires the headless browser, collects every *)
(* configured section through the fetch chain and the global Deduper,      *)
(* builds the digest and hands it to enviar_email().                       *)
(*                                                                         *)
(* Python strings are TLA+ strings.  TLC cannot index a string, so Chars   *)
(* gives the characters of every string a run can meet, and the string     *)
(* functions (normalize_kw, normalize_url, tokenize_title, ...) are        *)
(* computed on those characters and their result turned back to a string   *)
(* with Str.                                                               *)
(***************************************************************************)
EXTENDS Integers, Sequences, FiniteSets, TLC

(***************************************************************************)
(* The characters of each string of the model.                             *)
(***************************************************************************)
Chars ==
  ("" :> <<>>) @@
  ("  Selic sobe para 10% " :> <<" ", " ", "S", "e", "l", "i", "c", " ", "s", "o", "b", "e", " ", "p", "a", "r", "a", " ", "1", "0", "%", " ">>) @@
  ("  Senado adia votação do orçamento " :> <<" ", " ", "S", "e", "n", "a", "d", "o", " ", "a", "d", "i", "a", " ", "v", "o", "t", "a", "ç", "ã", "o", " ", "d", "o", " ", "o", "r", "ç", "a", "m", "e", "n", "t", "o", " ">>) @@
  ("!!!" :> <<"!", "!", "!">>) @@
  ("#" :> <<"#">>) @@
  ("/a/B" :> <<"/", "a", "/", "B">>) @@
  ("/a/b" :> <<"/", "a", "/", "b">>) @@
  ("/economia/" :> <<"/", "e", "c", "o", "n", "o", "m", "i", "a", "/">>) @@
  ("/economia/pib" :> <<"/", "e", "c", "o", "n", "o", "m", "i", "a", "/", "p", "i", "b">>) @@
  ("/login" :> <<"/", "l", "o", "g", "i", "n">>) @@
  ("/politica/" :> <<"/", "p", "o", "l", "i", "t", "i", "c", "a", "/">>) @@
  ("/politica/camara" :> <<"/", "p", "o", "l", "i", "t", "i", "c", "a", "/", "c", "a", "m", "a", "r", "a">>) @@
  ("/politica/selic-hoje" :> <<"/", "p", "o", "l", "i", "t", "i", "c", "a", "/", "s", "e", "l", "i", "c", "-", "h", "o", "j", "e">>) @@
  ("/signin" :> <<"/", "s", "i", "g", "n", "i", "n">>) @@
  ("/subscribe" :> <<"/", "s", "u", "b", "s", "c", "r", "i", "b", "e">>) @@
  ("A economia cresceu mais do que previam os analistas do mercado" :> <<"A", " ", "e", "c", "o", "n", "o", "m", "i", "a", " ", "c", "r", "e", "s", "c", "e", "u", " ", "m", "a", "i", "s", " ", "d", "o", " ", "q", "u", "e", " ", "p", "r", "e", "v", "i", "a", "m", " ", "o", "s", " ", "a", "n", "a", "l", "i", "s", "t", "a", "s", " ", "d", "o", " ", "m", "e", "r", "c", "a", "d", "o">>) @@
  ("An entry that carries no link element at all here" :> <<"A", "n", " ", "e", "n", "t", "r", "y", " ", "t", "h", "a", "t", " ", "c", "a", "r", "r", "i", "e", "s", " ", "n", "o", " ", "l", "i", "n", "k", " ", "e", "l", "e", "m", "e", "n", "t", " ", "a", "t", " ", "a", "l", "l", " ", "h", "e", "r", "e">>) @@
  ("An entry that carries no title element at all here" :> <<"A", "n", " ", "e", "n", "t", "r", "y", " ", "t", "h", "a", "t", " ", "c", "a", "r", "r", "i", "e", "s", " ", "n", "o", " ", "t", "i", "t", "l", "e", " ", "e", "l", "e", "m", "e", "n", "t", " ", "a", "t", " ", "a", "l", "l", " ", "h", "e", "r", "e">>) @@
  ("Assine" :> <<"A", "s", "s", "i", "n", "e">>) @@
  ("Brazil raises interest rates" :> <<"B", "r", "a", "z", "i", "l", " ", "r", "a", "i", "s", "e", "s", " ", "i", "n", "t", "e", "r", "e", "s", "t", " ", "r", "a", "t", "e", "s">>) @@
  ("Brazil's central bank raised its benchmark rate" :> <<"B", "r", "a", "z", "i", "l", "'", "s", " ", "c", "e", "n", "t", "r", "a", "l", " ", "b", "a", "n", "k", " ", "r", "a", "i", "s", "e", "d", " ", "i", "t", "s", " ", "b", "e", "n", "c", "h", "m", "a", "r", "k", " ", "r", "a", "t", "e">>) @@
  ("Business" :> <<"B", "u", "s", "i", "n", "e", "s", "s">>) @@
  ("Camara aprova a reforma tributaria" :> <<"C", "a", "m", "a", "r", "a", " ", "a", "p", "r", "o", "v", "a", " ", "a", " ", "r", "e", "f", "o", "r", "m", "a", " ", "t", "r", "i", "b", "u", "t", "a", "r", "i", "a">>) @@
  ("Congresso derruba veto presidencial" :> <<"C", "o", "n", "g", "r", "e", "s", "s", "o", " ", "d", "e", "r", "r", "u", "b", "a", " ", "v", "e", "t", "o", " ", "p", "r", "e", "s", "i", "d", "e", "n", "c", "i", "a", "l">>) @@
  ("Court weighs land claims" :> <<"C", "o", "u", "r", "t", " ", "w", "e", "i", "g", "h", "s", " ", "l", "a", "n", "d", " ", "c", "l", "a", "i", "m", "s">>) @@
  ("Curto. Demais" :> <<"C", "u", "r", "t", "o", ".", " ", "D", "e", "m", "a", "i", "s">>) @@
  ("Câmara aprova reforma tributária" :> <<"C", "â", "m", "a", "r", "a", " ", "a", "p", "r", "o", "v", "a", " ", "r", "e", "f", "o", "r", "m", "a", " ", "t", "r", "i", "b", "u", "t", "á", "r", "i", "a">>) @@
  ("Câmara aprova reforma tributária hoje" :> <<"C", "â", "m", "a", "r", "a", " ", "a", "p", "r", "o", "v", "a", " ", "r", "e", "f", "o", "r", "m", "a", " ", "t", "r", "i", "b", "u", "t", "á", "r", "i", "a", " ", "h", "o", "j", "e">>) @@
  ("Deputados aprovaram o texto-base da reforma em dois turnos" :> <<"D", "e", "p", "u", "t", "a", "d", "o", "s", " ", "a", "p", "r", "o", "v", "a", "r", "a", "m", " ", "o", " ", "t", "e", "x", "t", "o", "-", "b", "a", "s", "e", " ", "d", "a", " ", "r", "e", "f", "o", "r", "m", "a", " ", "e", "m", " ", "d", "o", "i", "s", " ", "t", "u", "r", "n", "o", "s">>) @@
  ("Deputados aprovaram o texto-base da reforma em dois turnos. Veja mais" :> <<"D", "e", "p", "u", "t", "a", "d", "o", "s", " ", "a", "p", "r", "o", "v", "a", "r", "a", "m", " ", "o", " ", "t", "e", "x", "t", "o", "-", "b", "a", "s", "e", " ", "d", "a", " ", "r", "e", "f", "o", "r", "m", "a", " ", "e", "m", " ", "d", "o", "i", "s", " ", "t", "u", "r", "n", "o", "s", ".", " ", "V", "e", "j", "a", " ", "m", "a", "i", "s">>) @@
  ("Economia" :> <<"E", "c", "o", "n", "o", "m", "i", "a">>) @@
  ("Entre na sua conta do Estadão" :> <<"E", "n", "t", "r", "e", " ", "n", "a", " ", "s", "u", "a", " ", "c", "o", "n", "t", "a", " ", "d", "o", " ", "E", "s", "t", "a", "d", "ã", "o">>) @@
  ("Entry without a link" :> <<"E", "n", "t", "r", "y", " ", "w", "i", "t", "h", "o", "u", "t", " ", "a", " ", "l", "i", "n", "k">>) @@
  ("Example.com" :> <<"E", "x", "a", "m", "p", "l", "e", ".", "c", "o", "m">>) @@
  ("Flamengo vence o clássico no Rio" :> <<"F", "l", "a", "m", "e", "n", "g", "o", " ", "v", "e", "n", "c", "e", " ", "o", " ", "c", "l", "á", "s", "s", "i", "c", "o", " ", "n", "o", " ", "R", "i", "o">>) @@
  ("General" :> <<"G", "e", "n", "e", "r", "a", "l">>) @@
  ("Governo anuncia novo pacote fiscal" :> <<"G", "o", "v", "e", "r", "n", "o", " ", "a", "n", "u", "n", "c", "i", "a", " ", "n", "o", "v", "o", " ", "p", "a", "c", "o", "t", "e", " ", "f", "i", "s", "c", "a", "l">>) @@
  ("Health insurance costs rise" :> <<"H", "e", "a", "l", "t", "h", " ", "i", "n", "s", "u", "r", "a", "n", "c", "e", " ", "c", "o", "s", "t", "s", " ", "r", "i", "s", "e">>) @@
  ("Higher rates make credit more expensive for companies" :> <<"H", "i", "g", "h", "e", "r", " ", "r", "a", "t", "e", "s", " ", "m", "a", "k", "e", " ", "c", "r", "e", "d", "i", "t", " ", "m", "o", "r", "e", " ", "e", "x", "p", "e", "n", "s", "i", "v", "e", " ", "f", "o", "r", " ", "c", "o", "m", "p", "a", "n", "i", "e", "s">>) @@
  ("Lawmakers postponed the vote until next week at least" :> <<"L", "a", "w", "m", "a", "k", "e", "r", "s", " ", "p", "o", "s", "t", "p", "o", "n", "e", "d", " ", "t", "h", "e", " ", "v", "o", "t", "e", " ", "u", "n", "t", "i", "l", " ", "n", "e", "x", "t", " ", "w", "e", "e", "k", " ", "a", "t", " ", "l", "e", "a", "s", "t">>) @@
  ("Leia os comentários da matéria" :> <<"L", "e", "i", "a", " ", "o", "s", " ", "c", "o", "m", "e", "n", "t", "á", "r", "i", "o", "s", " ", "d", "a", " ", "m", "a", "t", "é", "r", "i", "a">>) @@
  ("Link sem destino na página" :> <<"L", "i", "n", "k", " ", "s", "e", "m", " ", "d", "e", "s", "t", "i", "n", "o", " ", "n", "a", " ", "p", "á", "g", "i", "n", "a">>) @@
  ("O Copom elevou a taxa básica de juros em meio ponto percentual" :> <<"O", " ", "C", "o", "p", "o", "m", " ", "e", "l", "e", "v", "o", "u", " ", "a", " ", "t", "a", "x", "a", " ", "b", "á", "s", "i", "c", "a", " ", "d", "e", " ", "j", "u", "r", "o", "s", " ", "e", "m", " ", "m", "e", "i", "o", " ", "p", "o", "n", "t", "o", " ", "p", "e", "r", "c", "e", "n", "t", "u", "a", "l">>) @@
  ("O pacote prevê corte de gastos e aumento de receitas no ano. A equipe econômica detalha as medidas na próxima semana" :> <<"O", " ", "p", "a", "c", "o", "t", "e", " ", "p", "r", "e", "v", "ê", " ", "c", "o", "r", "t", "e", " ", "d", "e", " ", "g", "a", "s", "t", "o", "s", " ", "e", " ", "a", "u", "m", "e", "n", "t", "o", " ", "d", "e", " ", "r", "e", "c", "e", "i", "t", "a", "s", " ", "n", "o", " ", "a", "n", "o", ".", " ", "A", " ", "e", "q", "u", "i", "p", "e", " ", "e", "c", "o", "n", "ô", "m", "i", "c", "a", " ", "d", "e", "t", "a", "l", "h", "a", " ", "a", "s", " ", "m", "e", "d", "i", "d", "a", "s", " ", "n", "a", " ", "p", "r", "ó", "x", "i", "m", "a", " ", "s", "e", "m", "a", "n", "a">>) @@
  ("O que é?" :> <<"O", " ", "q", "u", "e", " ", "é", "?">>) @@
  ("O veto barrava o reajuste dos planos de saúde coletivos neste ano" :> <<"O", " ", "v", "e", "t", "o", " ", "b", "a", "r", "r", "a", "v", "a", " ", "o", " ", "r", "e", "a", "j", "u", "s", "t", "e", " ", "d", "o", "s", " ", "p", "l", "a", "n", "o", "s", " ", "d", "e", " ", "s", "a", "ú", "d", "e", " ", "c", "o", "l", "e", "t", "i", "v", "o", "s", " ", "n", "e", "s", "t", "e", " ", "a", "n", "o">>) @@
  ("Operadoras reajustam mensalidades acima da inflação oficial" :> <<"O", "p", "e", "r", "a", "d", "o", "r", "a", "s", " ", "r", "e", "a", "j", "u", "s", "t", "a", "m", " ", "m", "e", "n", "s", "a", "l", "i", "d", "a", "d", "e", "s", " ", "a", "c", "i", "m", "a", " ", "d", "a", " ", "i", "n", "f", "l", "a", "ç", "ã", "o", " ", "o", "f", "i", "c", "i", "a", "l">>) @@
  ("PIB cresce acima do esperado" :> <<"P", "I", "B", " ", "c", "r", "e", "s", "c", "e", " ", "a", "c", "i", "m", "a", " ", "d", "o", " ", "e", "s", "p", "e", "r", "a", "d", "o">>) @@
  ("Plano de saúde fica mais caro" :> <<"P", "l", "a", "n", "o", " ", "d", "e", " ", "s", "a", "ú", "d", "e", " ", "f", "i", "c", "a", " ", "m", "a", "i", "s", " ", "c", "a", "r", "o">>) @@
  ("Política" :> <<"P", "o", "l", "í", "t", "i", "c", "a">>) @@
  ("Premiums climbed again this year across the country" :> <<"P", "r", "e", "m", "i", "u", "m", "s", " ", "c", "l", "i", "m", "b", "e", "d", " ", "a", "g", "a", "i", "n", " ", "t", "h", "i", "s", " ", "y", "e", "a", "r", " ", "a", "c", "r", "o", "s", "s", " ", "t", "h", "e", " ", "c", "o", "u", "n", "t", "r", "y">>) @@
  ("SELIC sobe para 10%!" :> <<"S", "E", "L", "I", "C", " ", "s", "o", "b", "e", " ", "p", "a", "r", "a", " ", "1", "0", "%", "!">>) @@
  ("STF julga marco temporal hoje" :> <<"S", "T", "F", " ", "j", "u", "l", "g", "a", " ", "m", "a", "r", "c", "o", " ", "t", "e", "m", "p", "o", "r", "a", "l", " ", "h", "o", "j", "e">>) @@
  ("Seguros de vida batem recorde" :> <<"S", "e", "g", "u", "r", "o", "s", " ", "d", "e", " ", "v", "i", "d", "a", " ", "b", "a", "t", "e", "m", " ", "r", "e", "c", "o", "r", "d", "e">>) @@
  ("Selic sobe para 10%" :> <<"S", "e", "l", "i", "c", " ", "s", "o", "b", "e", " ", "p", "a", "r", "a", " ", "1", "0", "%">>) @@
  ("Selic sobe para 10% ao ano" :> <<"S", "e", "l", "i", "c", " ", "s", "o", "b", "e", " ", "p", "a", "r", "a", " ", "1", "0", "%", " ", "a", "o", " ", "a", "n", "o">>) @@
  ("Selic sobe para 10%." :> <<"S", "e", "l", "i", "c", " ", "s", "o", "b", "e", " ", "p", "a", "r", "a", " ", "1", "0", "%", ".">>) @@
  ("Senado adia votação do orçamento" :> <<"S", "e", "n", "a", "d", "o", " ", "a", "d", "i", "a", " ", "v", "o", "t", "a", "ç", "ã", "o", " ", "d", "o", " ", "o", "r", "ç", "a", "m", "e", "n", "t", "o">>) @@
  ("Senate delays budget vote" :> <<"S", "e", "n", "a", "t", "e", " ", "d", "e", "l", "a", "y", "s", " ", "b", "u", "d", "g", "e", "t", " ", "v", "o", "t", "e">>) @@
  ("The central bank lifted its benchmark rate by half a point" :> <<"T", "h", "e", " ", "c", "e", "n", "t", "r", "a", "l", " ", "b", "a", "n", "k", " ", "l", "i", "f", "t", "e", "d", " ", "i", "t", "s", " ", "b", "e", "n", "c", "h", "m", "a", "r", "k", " ", "r", "a", "t", "e", " ", "b", "y", " ", "h", "a", "l", "f", " ", "a", " ", "p", "o", "i", "n", "t">>) @@
  ("The justices heard arguments on indigenous land rights" :> <<"T", "h", "e", " ", "j", "u", "s", "t", "i", "c", "e", "s", " ", "h", "e", "a", "r", "d", " ", "a", "r", "g", "u", "m", "e", "n", "t", "s", " ", "o", "n", " ", "i", "n", "d", "i", "g", "e", "n", "o", "u", "s", " ", "l", "a", "n", "d", " ", "r", "i", "g", "h", "t", "s">>) @@
  ("Veja como votou cada deputado" :> <<"V", "e", "j", "a", " ", "c", "o", "m", "o", " ", "v", "o", "t", "o", "u", " ", "c", "a", "d", "a", " ", "d", "e", "p", "u", "t", "a", "d", "o">>) @@
  ("Veja como votou cada deputado!" :> <<"V", "e", "j", "a", " ", "c", "o", "m", "o", " ", "v", "o", "t", "o", "u", " ", "c", "a", "d", "a", " ", "d", "e", "p", "u", "t", "a", "d", "o", "!">>) @@
  ("estadao.com.br" :> <<"e", "s", "t", "a", "d", "a", "o", ".", "c", "o", "m", ".", "b", "r">>) @@
  ("example.com" :> <<"e", "x", "a", "m", "p", "l", "e", ".", "c", "o", "m">>) @@
  ("health" :> <<"h", "e", "a", "l", "t", "h">>) @@
  ("health insurance" :> <<"h", "e", "a", "l", "t", "h", " ", "i", "n", "s", "u", "r", "a", "n", "c", "e">>) @@
  ("http" :> <<"h", "t", "t", "p">>) @@
  ("http://ESTADAO.com.br/politica/camara/?utm=x" :> <<"h", "t", "t", "p", ":", "/", "/", "E", "S", "T", "A", "D", "A", "O", ".", "c", "o", "m", ".", "b", "r", "/", "p", "o", "l", "i", "t", "i", "c", "a", "/", "c", "a", "m", "a", "r", "a", "/", "?", "u", "t", "m", "=", "x">>) @@
  ("http://estadao.com.br/politica/camara-2" :> <<"h", "t", "t", "p", ":", "/", "/", "e", "s", "t", "a", "d", "a", "o", ".", "c", "o", "m", ".", "b", "r", "/", "p", "o", "l", "i", "t", "i", "c", "a", "/", "c", "a", "m", "a", "r", "a", "-", "2">>) @@
  ("http://example.com/a/b" :> <<"h", "t", "t", "p", ":", "/", "/", "e", "x", "a", "m", "p", "l", "e", ".", "c", "o", "m", "/", "a", "/", "b">>) @@
  ("https" :> <<"h", "t", "t", "p", "s">>) @@
  ("https://economia.estadao.com.br/" :> <<"h", "t", "t", "p", "s", ":", "/", "/", "e", "c", "o", "n", "o", "m", "i", "a", ".", "e", "s", "t", "a", "d", "a", "o", ".", "c", "o", "m", ".", "b", "r", "/">>) @@
  ("https://economia.estadao.com.br/economia/juros" :> <<"h", "t", "t", "p", "s", ":", "/", "/", "e", "c", "o", "n", "o", "m", "i", "a", ".", "e", "s", "t", "a", "d", "a", "o", ".", "c", "o", "m", ".", "b", "r", "/", "e", "c", "o", "n", "o", "m", "i", "a", "/", "j", "u", "r", "o", "s">>) @@
  ("https://economia.estadao.com.br/economia/pib" :> <<"h", "t", "t", "p", "s", ":", "/", "/", "e", "c", "o", "n", "o", "m", "i", "a", ".", "e", "s", "t", "a", "d", "a", "o", ".", "c", "o", "m", ".", "b", "r", "/", "e", "c", "o", "n", "o", "m", "i", "a", "/", "p", "i", "b">>) @@
  ("https://economia.estadao.com.br/economia/reforma" :> <<"h", "t", "t", "p", "s", ":", "/", "/", "e", "c", "o", "n", "o", "m", "i", "a", ".", "e", "s", "t", "a", "d", "a", "o", ".", "c", "o", "m", ".", "b", "r", "/", "e", "c", "o", "n", "o", "m", "i", "a", "/", "r", "e", "f", "o", "r", "m", "a">>) @@
  ("https://economia.estadao.com.br/economia/seguros" :> <<"h", "t", "t", "p", "s", ":", "/", "/", "e", "c", "o", "n", "o", "m", "i", "a", ".", "e", "s", "t", "a", "d", "a", "o", ".", "c", "o", "m", ".", "b", "r", "/", "e", "c", "o", "n", "o", "m", "i", "a", "/", "s", "e", "g", "u", "r", "o", "s">>) @@
  ("https://economia.estadao.com.br/economia/selic" :> <<"h", "t", "t", "p", "s", ":", "/", "/", "e", "c", "o", "n", "o", "m", "i", "a", ".", "e", "s", "t", "a", "d", "a", "o", ".", "c", "o", "m", ".", "b", "r", "/", "e", "c", "o", "n", "o", "m", "i", "a", "/", "s", "e", "l", "i", "c">>) @@
  ("https://economia.estadao.com.br/politica/camara" :> <<"h", "t", "t", "p", "s", ":", "/", "/", "e", "c", "o", "n", "o", "m", "i", "a", ".", "e", "s", "t", "a", "d", "a", "o", ".", "c", "o", "m", ".", "b", "r", "/", "p", "o", "l", "i", "t", "i", "c", "a", "/", "c", "a", "m", "a", "r", "a">>) @@
  ("https://economia.estadao.com.br/politica/selic-hoje" :> <<"h", "t", "t", "p", "s", ":", "/", "/", "e", "c", "o", "n", "o", "m", "i", "a", ".", "e", "s", "t", "a", "d", "a", "o", ".", "c", "o", "m", ".", "b", "r", "/", "p", "o", "l", "i", "t", "i", "c", "a", "/", "s", "e", "l", "i", "c", "-", "h", "o", "j", "e">>) @@
  ("https://rss.nytimes.com/services/xml/rss/nyt/World.xml" :> <<"h", "t", "t", "p", "s", ":", "/", "/", "r", "s", "s", ".", "n", "y", "t", "i", "m", "e", "s", ".", "c", "o", "m", "/", "s", "e", "r", "v", "i", "c", "e", "s", "/", "x", "m", "l", "/", "r", "s", "s", "/", "n", "y", "t", "/", "W", "o", "r", "l", "d", ".", "x", "m", "l">>) @@
  ("https://www.Example.com/a/b/" :> <<"h", "t", "t", "p", "s", ":", "/", "/", "w", "w", "w", ".", "E", "x", "a", "m", "p", "l", "e", ".", "c", "o", "m", "/", "a", "/", "b", "/">>) @@
  ("https://www.estadao.com.br/POLITICA/veto" :> <<"h", "t", "t", "p", "s", ":", "/", "/", "w", "w", "w", ".", "e", "s", "t", "a", "d", "a", "o", ".", "c", "o", "m", ".", "b", "r", "/", "P", "O", "L", "I", "T", "I", "C", "A", "/", "v", "e", "t", "o">>) @@
  ("https://www.estadao.com.br/economia/pib" :> <<"h", "t", "t", "p", "s", ":", "/", "/", "w", "w", "w", ".", "e", "s", "t", "a", "d", "a", "o", ".", "c", "o", "m", ".", "b", "r", "/", "e", "c", "o", "n", "o", "m", "i", "a", "/", "p", "i", "b">>) @@
  ("https://www.estadao.com.br/esportes/futebol" :> <<"h", "t", "t", "p", "s", ":", "/", "/", "w", "w", "w", ".", "e", "s", "t", "a", "d", "a", "o", ".", "c", "o", "m", ".", "b", "r", "/", "e", "s", "p", "o", "r", "t", "e", "s", "/", "f", "u", "t", "e", "b", "o", "l">>) @@
  ("https://www.estadao.com.br/login" :> <<"h", "t", "t", "p", "s", ":", "/", "/", "w", "w", "w", ".", "e", "s", "t", "a", "d", "a", "o", ".", "c", "o", "m", ".", "b", "r", "/", "l", "o", "g", "i", "n">>) @@
  ("https://www.estadao.com.br/politica/" :> <<"h", "t", "t", "p", "s", ":", "/", "/", "w", "w", "w", ".", "e", "s", "t", "a", "d", "a", "o", ".", "c", "o", "m", ".", "b", "r", "/", "p", "o", "l", "i", "t", "i", "c", "a", "/">>) @@
  ("https://www.estadao.com.br/politica/assine" :> <<"h", "t", "t", "p", "s", ":", "/", "/", "w", "w", "w", ".", "e", "s", "t", "a", "d", "a", "o", ".", "c", "o", "m", ".", "b", "r", "/", "p", "o", "l", "i", "t", "i", "c", "a", "/", "a", "s", "s", "i", "n", "e">>) @@
  ("https://www.estadao.com.br/politica/camara" :> <<"h", "t", "t", "p", "s", ":", "/", "/", "w", "w", "w", ".", "e", "s", "t", "a", "d", "a", "o", ".", "c", "o", "m", ".", "b", "r", "/", "p", "o", "l", "i", "t", "i", "c", "a", "/", "c", "a", "m", "a", "r", "a">>) @@
  ("https://www.estadao.com.br/politica/governo" :> <<"h", "t", "t", "p", "s", ":", "/", "/", "w", "w", "w", ".", "e", "s", "t", "a", "d", "a", "o", ".", "c", "o", "m", ".", "b", "r", "/", "p", "o", "l", "i", "t", "i", "c", "a", "/", "g", "o", "v", "e", "r", "n", "o">>) @@
  ("https://www.estadao.com.br/politica/saude" :> <<"h", "t", "t", "p", "s", ":", "/", "/", "w", "w", "w", ".", "e", "s", "t", "a", "d", "a", "o", ".", "c", "o", "m", ".", "b", "r", "/", "p", "o", "l", "i", "t", "i", "c", "a", "/", "s", "a", "u", "d", "e">>) @@
  ("https://www.estadao.com.br/politica/selic" :> <<"h", "t", "t", "p", "s", ":", "/", "/", "w", "w", "w", ".", "e", "s", "t", "a", "d", "a", "o", ".", "c", "o", "m", ".", "b", "r", "/", "p", "o", "l", "i", "t", "i", "c", "a", "/", "s", "e", "l", "i", "c">>) @@
  ("https://www.estadao.com.br/politica/selic-hoje" :> <<"h", "t", "t", "p", "s", ":", "/", "/", "w", "w", "w", ".", "e", "s", "t", "a", "d", "a", "o", ".", "c", "o", "m", ".", "b", "r", "/", "p", "o", "l", "i", "t", "i", "c", "a", "/", "s", "e", "l", "i", "c", "-", "h", "o", "j", "e">>) @@
  ("https://www.estadao.com.br/politica/senado" :> <<"h", "t", "t", "p", "s", ":", "/", "/", "w", "w", "w", ".", "e", "s", "t", "a", "d", "a", "o", ".", "c", "o", "m", ".", "b", "r", "/", "p", "o", "l", "i", "t", "i", "c", "a", "/", "s", "e", "n", "a", "d", "o">>) @@
  ("https://www.estadao.com.br/politica/stf" :> <<"h", "t", "t", "p", "s", ":", "/", "/", "w", "w", "w", ".", "e", "s", "t", "a", "d", "a", "o", ".", "c", "o", "m", ".", "b", "r", "/", "p", "o", "l", "i", "t", "i", "c", "a", "/", "s", "t", "f">>) @@
  ("https://www.estadao.com.br/politica/stf#comentarios" :> <<"h", "t", "t", "p", "s", ":", "/", "/", "w", "w", "w", ".", "e", "s", "t", "a", "d", "a", "o", ".", "c", "o", "m", ".", "b", "r", "/", "p", "o", "l", "i", "t", "i", "c", "a", "/", "s", "t", "f", "#", "c", "o", "m", "e", "n", "t", "a", "r", "i", "o", "s">>) @@
  ("https://www.estadao.com.br/politica/votacao" :> <<"h", "t", "t", "p", "s", ":", "/", "/", "w", "w", "w", ".", "e", "s", "t", "a", "d", "a", "o", ".", "c", "o", "m", ".", "b", "r", "/", "p", "o", "l", "i", "t", "i", "c", "a", "/", "v", "o", "t", "a", "c", "a", "o">>) @@
  ("https://www.nytimes.com/business/selic" :> <<"h", "t", "t", "p", "s", ":", "/", "/", "w", "w", "w", ".", "n", "y", "t", "i", "m", "e", "s", ".", "c", "o", "m", "/", "b", "u", "s", "i", "n", "e", "s", "s", "/", "s", "e", "l", "i", "c">>) @@
  ("https://www.nytimes.com/world/brazil-rates" :> <<"h", "t", "t", "p", "s", ":", "/", "/", "w", "w", "w", ".", "n", "y", "t", "i", "m", "e", "s", ".", "c", "o", "m", "/", "w", "o", "r", "l", "d", "/", "b", "r", "a", "z", "i", "l", "-", "r", "a", "t", "e", "s">>) @@
  ("https://www.nytimes.com/world/budget" :> <<"h", "t", "t", "p", "s", ":", "/", "/", "w", "w", "w", ".", "n", "y", "t", "i", "m", "e", "s", ".", "c", "o", "m", "/", "w", "o", "r", "l", "d", "/", "b", "u", "d", "g", "e", "t">>) @@
  ("https://www.nytimes.com/world/court" :> <<"h", "t", "t", "p", "s", ":", "/", "/", "w", "w", "w", ".", "n", "y", "t", "i", "m", "e", "s", ".", "c", "o", "m", "/", "w", "o", "r", "l", "d", "/", "c", "o", "u", "r", "t">>) @@
  ("https://www.nytimes.com/world/health" :> <<"h", "t", "t", "p", "s", ":", "/", "/", "w", "w", "w", ".", "n", "y", "t", "i", "m", "e", "s", ".", "c", "o", "m", "/", "w", "o", "r", "l", "d", "/", "h", "e", "a", "l", "t", "h">>) @@
  ("https://www.nytimes.com/world/selic" :> <<"h", "t", "t", "p", "s", ":", "/", "/", "w", "w", "w", ".", "n", "y", "t", "i", "m", "e", "s", ".", "c", "o", "m", "/", "w", "o", "r", "l", "d", "/", "s", "e", "l", "i", "c">>) @@
  ("https://www.nytimes.com/world/untitled" :> <<"h", "t", "t", "p", "s", ":", "/", "/", "w", "w", "w", ".", "n", "y", "t", "i", "m", "e", "s", ".", "c", "o", "m", "/", "w", "o", "r", "l", "d", "/", "u", "n", "t", "i", "t", "l", "e", "d">>) @@
  ("insurance" :> <<"i", "n", "s", "u", "r", "a", "n", "c", "e">>) @@
  ("plano de saude" :> <<"p", "l", "a", "n", "o", " ", "d", "e", " ", "s", "a", "u", "d", "e">>) @@
  ("plano de saúde" :> <<"p", "l", "a", "n", "o", " ", "d", "e", " ", "s", "a", "ú", "d", "e">>) @@
  ("saude" :> <<"s", "a", "u", "d", "e">>) @@
  ("saúde" :> <<"s", "a", "ú", "d", "e">>) @@
  ("seguro" :> <<"s", "e", "g", "u", "r", "o">>) @@
  ("seguros" :> <<"s", "e", "g", "u", "r", "o", "s">>) @@
  ("top" :> <<"t", "o", "p">>) @@
  ("utm=x" :> <<"u", "t", "m", "=", "x">>) @@
  ("www." :> <<"w", "w", "w", ".">>)


(***************************************************************************)
(* Python's string operations, on characters.                              *)
(***************************************************************************)

\* The function f as the table of its values, each computed once.
Tabulated(f) == f @@ <<>>

Min(S) == CHOOSE i \in S : \A j \in S : i <= j
Max(S) == CHOOSE i \in S : \A j \in S : i >= j
MinOr0(S) == IF S = {} THEN 0 ELSE Min(S)

\* The string made of the characters cs.
RECURSIVE StrFrom(_, _, _)
StrFrom(cs, lo, hi) ==
  IF lo > hi THEN ""
  ELSE IF lo = hi THEN cs[lo]
  ELSE StrFrom(cs, lo, (lo + hi) \div 2) \o StrFrom(cs, (lo + hi) \div 2 + 1, hi)

Str(cs) == StrFrom(cs, 1, Len(cs))

\* Position of the first character of cs, at or after from, that is in set;
\* 0 if there is none.
FindAny(cs, set, from) == MinOr0({i \in from..Len(cs) : cs[i] \in set})

\* sub in s
Contains(cs, sub) ==
  \E i \in 1..(Len(cs) - Len(sub) + 1) : SubSeq(cs, i, i + Len(sub) - 1) = sub

\* s.find(sub) + 1
Find(cs, sub) ==
  MinOr0({i \in 1..(Len(cs) - Len(sub) + 1) : SubSeq(cs, i, i + Len(sub) - 1) = sub})

\* s.startswith(prefix)
StartsWith(cs, prefix) ==
  Len(cs) >= Len(prefix) /\ SubSeq(cs, 1, Len(prefix)) = prefix

Whitespace == {" "}

Between(cs, keep) == IF keep = {} THEN <<>> ELSE SubSeq(cs, Min(keep), Max(keep))

\* s.strip()
Strip(cs) == Between(cs, {i \in 1..Len(cs) : cs[i] \notin Whitespace})

UpTo(cs, keep) == IF keep = {} THEN <<>> ELSE SubSeq(cs, 1, Max(keep))

\* s.rstrip("/")
RStripSlash(cs) == UpTo(cs, {i \in 1..Len(cs) : cs[i] # "/"})

UpperToLower ==
  [A |-> "a", B |-> "b", C |-> "c", D |-> "d", E |-> "e", F |-> "f", G |-> "g",
   H |-> "h", I |-> "i", J |-> "j", K |-> "k", L |-> "l", M |-> "m", N |-> "n",
   O |-> "o", P |-> "p", Q |-> "q", R |-> "r", S |-> "s", T |-> "t", U |-> "u",
   V |-> "v", W |-> "w", X |-> "x", Y |-> "y", Z |-> "z"] @@
  ("Á" :> "á") @@ ("À" :> "à") @@ ("Â" :> "â") @@ ("Ã" :> "ã") @@
  ("É" :> "é") @@ ("Ê" :> "ê") @@ ("Í" :> "í") @@ ("Ó" :> "ó") @@
  ("Ô" :> "ô") @@ ("Õ" :> "õ") @@ ("Ú" :> "ú") @@ ("Ç" :> "ç")

\* Each character of cs that map gives an image, replaced by that image.
MapChars(cs, map) ==
  [i \in 1..Len(cs) |-> IF cs[i] \in DOMAIN map THEN map[cs[i]] ELSE cs[i]]

\* s.lower()
Lower(cs) == MapChars(cs, UpperToLower)

(***************************************************************************)
(* Normalisation and deduplication.                                        *)
(***************************************************************************)

STOPWORDS ==
  {"de","da","do","das","dos","para","por","em","no","na","nos","nas",
   "e","a","o","as","os","um","uma","ao","à","com","sobre","contra","entre",
   "se","que","porém","mas","ou"}

\* The chained replace() calls of normalize_kw.
AccentFold ==
  ("á" :> "a") @@ ("à" :> "a") @@ ("â" :> "a") @@
  ("é" :> "e") @@ ("ê" :> "e") @@
  ("í" :> "i") @@
  ("ó" :> "o") @@ ("ô" :> "o") @@
  ("ú" :> "u") @@ ("ç" :> "c")

normalize_kw_chars(cs) == MapChars(Lower(cs), AccentFold)

normalize_kw(s) == Str(normalize_kw_chars(Chars[s]))

SchemeChars ==
  {"a","b","c","d","e","f","g","h","i","j","k","l","m","n","o","p","q","r","s","t",
   "u","v","w","x","y","z","A","B","C","D","E","F","G","H","I","J","K","L","M","N",
   "O","P","Q","R","S","T","U","V","W","X","Y","Z","0","1","2","3","4","5","6","7",
   "8","9","+","-","."}

AsciiLetters == SchemeChars \ {"0","1","2","3","4","5","6","7","8","9","+","-","."}

\* urllib.parse.urlsplit on characters, in the order it cuts the string:
\* the scheme up to the first ":", the netloc after "//" up to the first of
\* "/", "?" and "#", the fragment after the first "#", the query after the
\* first "?", and what is left is the path.
SplitQuery(scheme, netloc, url, fragment, qm) ==
  [scheme   |-> scheme,
   netloc   |-> netloc,
   path     |-> IF qm = 0 THEN url ELSE SubSeq(url, 1, qm - 1),
   query    |-> IF qm = 0 THEN <<>> ELSE SubSeq(url, qm + 1, Len(url)),
   fragment |-> fragment]

CutFragment(scheme, netloc, url, fragment) ==
  SplitQuery(scheme, netloc, url, fragment, FindAny(url, {"?"}, 1))

SplitFragment(scheme, netloc, url, hash) ==
  IF hash = 0 THEN CutFragment(scheme, netloc, url, <<>>)
  ELSE CutFragment(scheme, netloc, SubSeq(url, 1, hash - 1),
                   SubSeq(url, hash + 1, Len(url)))

AfterNetloc(scheme, netloc, url) ==
  SplitFragment(scheme, netloc, url, FindAny(url, {"#"}, 1))

CutNetloc(scheme, rest, netEnd) ==
  AfterNetloc(scheme, SubSeq(rest, 3, netEnd), SubSeq(rest, netEnd + 1, Len(rest)))

SplitNetloc(scheme, rest, delim) ==
  CutNetloc(scheme, rest, IF delim = 0 THEN Len(rest) ELSE delim - 1)

AfterScheme(scheme, rest) ==
  IF StartsWith(rest, <<"/", "/">>)
    THEN SplitNetloc(scheme, rest, FindAny(rest, {"/", "?", "#"}, 3))
    ELSE AfterNetloc(scheme, <<>>, rest)

SplitScheme(cs, colon) ==
  IF /\ colon > 1
     /\ cs[1] \in AsciiLetters
     /\ \A i \in 1..(colon - 1) : cs[i] \in SchemeChars
    THEN AfterScheme(Lower(SubSeq(cs, 1, colon - 1)), SubSeq(cs, colon + 1, Len(cs)))
    ELSE AfterScheme(<<>>, cs)

urlsplit(cs) == SplitScheme(cs, FindAny(cs, {":"}, 1))

\* urllib.parse.urlunsplit(("", netloc, path, "", "")).
urlunsplit(netloc, path) ==
  IF netloc # <<>>
    THEN <<"/", "/">> \o netloc
           \o (IF path # <<>> /\ path[1] # "/" THEN <<"/">> ELSE <<>>) \o path
    ELSE path

\* A host left with its "www.".
StripWwwNever(host) == host

\* host[4:] if host.startswith("www.")
StripWww(host) ==
  IF StartsWith(host, <<"w", "w", "w", ".">>) THEN SubSeq(host, 5, Len(host)) ELSE host

CanonicalOf(s) == urlunsplit(StripWww(Lower(s.netloc)), RStripSlash(s.path))

normalize_url_chars(cs) == CanonicalOf(urlsplit(Strip(cs)))

NormalizeUrlTable ==
  Tabulated([s \in DOMAIN Chars |-> Str(normalize_url_chars(Chars[s]))])

normalize_url(u) == NormalizeUrlTable[u]

TokenChars ==
  {"a","b","c","d","e","f","g","h","i","j","k","l","m","n","o","p","q","r","s","t",
   "u","v","w","x","y","z","0","1","2","3","4","5","6","7","8","9"}

\* The end of the word of cs that starts at i.
WordEnd(cs, i) ==
  Min({j \in i..Len(cs) : j = Len(cs) \/ cs[j + 1] \in Whitespace})

\* s.split(): the maximal runs of characters that are not whitespace.
SplitWords(cs) ==
  {Str(SubSeq(cs, i, WordEnd(cs, i))) :
     i \in {k \in 1..Len(cs) : cs[k] \notin Whitespace
                               /\ (k = 1 \/ cs[k - 1] \in Whitespace)}}

\* re.sub(r"[^a-z0-9\s]", " ", t)
BlankNonToken(cs) ==
  [i \in 1..Len(cs) |-> IF cs[i] \in TokenChars \cup Whitespace THEN cs[i] ELSE " "]

tokenize_title_chars(cs) ==
  {tok \in SplitWords(BlankNonToken(normalize_kw_chars(cs))) : tok \notin STOPWORDS}

TokenTable == Tabulated([s \in DOMAIN Chars |-> tokenize_title_chars(Chars[s])])

tokenize_title(t) == TokenTable[t]

\* inter / uni as the fraction <<inter, uni>>; 0.0 is <<0, 1>>.
Jaccard(a, b) ==
  IF a = {} \/ b = {} THEN <<0, 1>>
  ELSE <<Cardinality(a \cap b), Cardinality(a \cup b)>>

\* A similarity that divides by the size of the first title's token set.
title_similarity_OverFirst(t1, t2) ==
  IF tokenize_title(t1) = {} \/ tokenize_title(t2) = {} THEN <<0, 1>>
  ELSE <<Cardinality(tokenize_title(t1) \cap tokenize_title(t2)),
         Cardinality(tokenize_title(t1))>>

title_similarity(t1, t2) == Jaccard(tokenize_title(t1), tokenize_title(t2))

\* TITLE_SIM_THRESHOLD = 0.85 as the fraction 85/100.
TITLE_SIM_THRESHOLD_NUM == 85
TITLE_SIM_THRESHOLD_DEN == 100

\* similarity >= TITLE_SIM_THRESHOLD
AtLeastThreshold(sim) ==
  sim[1] * TITLE_SIM_THRESHOLD_DEN >= TITLE_SIM_THRESHOLD_NUM * sim[2]

(***************************************************************************)
(* The web the runs see: the anchors a section page may carry, the entries *)
(* a feed may carry, and the article text behind each link.                *)
(***************************************************************************)
aCamara == [text |-> "Câmara aprova reforma tributária", href |-> "/politica/camara"]
aSenado == [text |-> "  Senado adia votação do orçamento ", href |-> "https://www.estadao.com.br/politica/senado"]
aStf == [text |-> "STF julga marco temporal hoje", href |-> "https://www.estadao.com.br/politica/stf"]
aGoverno == [text |-> "Governo anuncia novo pacote fiscal", href |-> "https://www.estadao.com.br/politica/governo"]
aSaude == [text |-> "Plano de saúde fica mais caro", href |-> "https://www.estadao.com.br/politica/saude"]
aSelicPol == [text |-> "SELIC sobe para 10%!", href |-> "https://www.estadao.com.br/politica/selic"]
aCamaraT == [text |-> "Camara aprova a reforma tributaria", href |-> "http://estadao.com.br/politica/camara-2"]
aCamaraU == [text |-> "Veja como votou cada deputado", href |-> "http://ESTADAO.com.br/politica/camara/?utm=x"]
aVotou == [text |-> "Veja como votou cada deputado!", href |-> "https://www.estadao.com.br/politica/votacao"]
aFutebol == [text |-> "Flamengo vence o clássico no Rio", href |-> "https://www.estadao.com.br/esportes/futebol"]
aLogin == [text |-> "Entre na sua conta do Estadão", href |-> "https://www.estadao.com.br/login"]
aAssine == [text |-> "Assine", href |-> "https://www.estadao.com.br/politica/assine"]
aFrag == [text |-> "Leia os comentários da matéria", href |-> "https://www.estadao.com.br/politica/stf#comentarios"]
aSemHref == [text |-> "Link sem destino na página", href |-> ""]
aCurto == [text |-> "  Selic sobe para 10% ", href |-> "/politica/selic-hoje"]
aCamaraAbs == [text |-> "Câmara aprova reforma tributária hoje", href |-> "https://www.estadao.com.br/politica/camara"]
aVeto == [text |-> "Congresso derruba veto presidencial", href |-> "https://www.estadao.com.br/POLITICA/veto"]
aSelicEco == [text |-> "Selic sobe para 10% ao ano", href |-> "https://economia.estadao.com.br/economia/selic"]
aSelicDup == [text |-> "Selic sobe para 10%.", href |-> "https://economia.estadao.com.br/economia/juros"]
aPib == [text |-> "PIB cresce acima do esperado", href |-> "/economia/pib"]
aSeguro == [text |-> "Seguros de vida batem recorde", href |-> "https://economia.estadao.com.br/economia/seguros"]
aCamaraEco == [text |-> "Câmara aprova reforma tributária", href |-> "https://economia.estadao.com.br/economia/reforma"]
nSelic ==
  [title |-> "Selic sobe para 10%", link |-> "https://www.nytimes.com/world/selic",
   description |-> "Brazil's central bank raised its benchmark rate"]
nRates ==
  [title |-> "Brazil raises interest rates", link |-> "https://www.nytimes.com/world/brazil-rates",
   description |-> ""]
nHealth ==
  [title |-> "Health insurance costs rise", link |-> "https://www.nytimes.com/world/health",
   description |-> "Premiums climbed again this year across the country"]
nVote ==
  [title |-> "Senate delays budget vote", link |-> "https://www.nytimes.com/world/budget",
   description |-> "Lawmakers postponed the vote until next week at least"]
nCourt ==
  [title |-> "Court weighs land claims", link |-> "https://www.nytimes.com/world/court",
   description |-> "The justices heard arguments on indigenous land rights"]
nSelicB ==
  [title |-> "Selic sobe para 10%", link |-> "https://www.nytimes.com/business/selic",
   description |-> "Higher rates make credit more expensive for companies"]
nNoTitle ==
  [title |-> "", link |-> "https://www.nytimes.com/world/untitled",
   description |-> "An entry that carries no title element at all here"]
nNoLink ==
  [title |-> "Entry without a link", link |-> "",
   description |-> "An entry that carries no link element at all here"]

\* The text of the <p> elements behind each link that answers 200.
ARTICLES ==
  ("https://www.estadao.com.br/politica/camara" :>
     "Deputados aprovaram o texto-base da reforma em dois turnos. Veja mais") @@
  ("https://www.estadao.com.br/politica/senado" :>
     "Curto. Demais") @@
  ("https://www.estadao.com.br/politica/governo" :>
     "O pacote prevê corte de gastos e aumento de receitas no ano. A equipe econômica detalha as medidas na próxima semana") @@
  ("https://www.estadao.com.br/POLITICA/veto" :>
     "O veto barrava o reajuste dos planos de saúde coletivos neste ano") @@
  ("https://www.estadao.com.br/politica/saude" :>
     "Operadoras reajustam mensalidades acima da inflação oficial") @@
  ("https://www.estadao.com.br/politica/selic" :>
     "O Copom elevou a taxa básica de juros em meio ponto percentual") @@
  ("https://economia.estadao.com.br/economia/selic" :>
     "O Copom elevou a taxa básica de juros em meio ponto percentual") @@
  ("https://economia.estadao.com.br/economia/pib" :>
     "A economia cresceu mais do que previam os analistas do mercado") @@
  ("https://www.nytimes.com/world/brazil-rates" :>
     "The central bank lifted its benchmark rate by half a point")

(***************************************************************************)
(* Configuration.                                                          *)
(***************************************************************************)

\* The sections of a run, in the order rotina() visits them: four of the
\* ten configured, two HTML sections of one newspaper and two feed sections
\* of the NYT.
SECTIONS ==
  << [jornal |-> "Estadão", name |-> "Política",
      conf |-> [url |-> "https://www.estadao.com.br/politica/",
                path_must_include |-> <<"/politica/">>]],
     [jornal |-> "Estadão", name |-> "Economia",
      conf |-> [url |-> "https://economia.estadao.com.br/",
                path_must_include |-> <<"/economia/">>]],
     [jornal |-> "NYT", name |-> "General",
      conf |-> [rss |-> "https://rss.nytimes.com/services/xml/rss/nyt/World.xml"]],
     [jornal |-> "NYT", name |-> "Business",
      conf |-> [rss |-> "https://rss.nytimes.com/services/xml/rss/nyt/Business.xml"]] >>

NSections == Len(SECTIONS)

HEALTH_KEYWORDS ==
  {"plano de saude", "plano de saúde",
   "saude", "saúde",
   "seguros", "seguro",
   "health", "health insurance", "insurance"}

WANT_PER_SECTION == 4
SCAN_LIMIT == 60
RSS_MAX_ITEMS == WANT_PER_SECTION * 2

(***************************************************************************)
(* Deduper.                                                                *)
(***************************************************************************)

\* Faulty variants of is_dup, each breaking one part of its contract: one
\* that compares no titles, one that compares no URLs, one that records a
\* pair it rejects, and one that records nothing.
is_dup_UrlOnly(seen, tl, title, url) ==
  IF normalize_url(url) \in seen
    THEN [dup |-> TRUE, seen_urls |-> seen, titles |-> tl]
  ELSE [dup |-> FALSE, seen_urls |-> seen \cup {normalize_url(url)},
        titles |-> Append(tl, title)]

is_dup_TitleOnly(seen, tl, title, url) ==
  IF \E i \in 1..Len(tl) : AtLeastThreshold(title_similarity(tl[i], title))
    THEN [dup |-> TRUE, seen_urls |-> seen, titles |-> tl]
  ELSE [dup |-> FALSE, seen_urls |-> seen \cup {normalize_url(url)},
        titles |-> Append(tl, title)]

is_dup_RecordsRejected(seen, tl, title, url) ==
  [dup |-> \/ normalize_url(url) \in seen
           \/ \E i \in 1..Len(tl) : AtLeastThreshold(title_similarity(tl[i], title)),
   seen_urls |-> seen \cup {normalize_url(url)},
   titles |-> Append(tl, title)]

is_dup_RecordsNothing(seen, tl, title, url) ==
  [dup |-> \/ normalize_url(url) \in seen
           \/ \E i \in 1..Len(tl) : AtLeastThreshold(title_similarity(tl[i], title)),
   seen_urls |-> seen,
   titles |-> tl]

\* An is_dup that keeps the title of a pair it rejects for its URL.
is_dup_TitleOfRejected(seen, tl, title, url) ==
  IF normalize_url(url) \in seen
    THEN [dup |-> TRUE, seen_urls |-> seen, titles |-> Append(tl, title)]
  ELSE IF \E i \in 1..Len(tl) : AtLeastThreshold(title_similarity(tl[i], title))
    THEN [dup |-> TRUE, seen_urls |-> seen, titles |-> tl]
  ELSE [dup |-> FALSE, seen_urls |-> seen \cup {normalize_url(url)},
        titles |-> Append(tl, title)]

\* Deduper.is_dup(title, url) in the state (seen, tl): the value returned
\* and the state left.
is_dup(seen, tl, title, url) ==
  LET u_norm == normalize_url(url)
  IN  IF u_norm \in seen
        THEN [dup |-> TRUE, seen_urls |-> seen, titles |-> tl]
      ELSE IF \E i \in 1..Len(tl) : AtLeastThreshold(title_similarity(tl[i], title))
        THEN [dup |-> TRUE, seen_urls |-> seen, titles |-> tl]
      ELSE [dup |-> FALSE, seen_urls |-> seen \cup {u_norm},
            titles |-> Append(tl, title)]

(***************************************************************************)
(* Link extraction and the fetch strategies.                               *)
(***************************************************************************)

\* urllib.parse.urljoin(base, href) for the two shapes of href the pages
\* carry: an absolute URL, and a path from the root of the base's site.
JoinRoot(b, h) == Str(b.scheme \o <<":", "/", "/">> \o b.netloc \o h)

urljoin(base, href) ==
  CASE urlsplit(Chars[href]).scheme # <<>> -> href
    [] /\ StartsWith(Chars[href], <<"/">>)
       /\ ~StartsWith(Chars[href], <<"/", "/">>) ->
         JoinRoot(urlsplit(Chars[base]), Chars[href])

\* A denylist without the fragment marker.
DENYLIST_NoFragment == {"/subscribe", "/signin", "/login"}

DENYLIST == {"/subscribe", "/signin", "/login", "#"}

\* _filter_links(url_base, soup, scan_limit), from the i-th a[href] element
\* of the page on, with the local seen and the items found so far.
RECURSIVE FilterLinksFrom(_, _, _, _, _, _)

\* if full not in seen: ...
KeepLink(url_base, soup, i, seen, found, scan_limit, more) ==
  IF Len(more) >= scan_limit THEN more
  ELSE FilterLinksFrom(url_base, soup, i + 1, seen \cup {more[Len(more)][2]},
                       more, scan_limit)

\* The checks on the stripped title and the resolved URL.
FilterLink(url_base, soup, i, seen, found, scan_limit, title, full) ==
  IF Len(Chars[title]) < 20
    THEN FilterLinksFrom(url_base, soup, i + 1, seen, found, scan_limit)
  ELSE IF \E x \in DENYLIST : Contains(Chars[full], Chars[x])
    THEN FilterLinksFrom(url_base, soup, i + 1, seen, found, scan_limit)
  ELSE IF full \notin seen
    THEN KeepLink(url_base, soup, i, seen, found, scan_limit,
                  Append(found, <<title, full>>))
  ELSE FilterLinksFrom(url_base, soup, i + 1, seen, found, scan_limit)

\* if not href or not title: continue
FilterAnchor(url_base, soup, i, seen, found, scan_limit, title, href) ==
  IF href = "" \/ title = ""
    THEN FilterLinksFrom(url_base, soup, i + 1, seen, found, scan_limit)
    ELSE FilterLink(url_base, soup, i, seen, found, scan_limit, title,
                    urljoin(url_base, href))

FilterLinksFrom(url_base, soup, i, seen, found, scan_limit) ==
  IF i > Len(soup) THEN found
  ELSE FilterAnchor(url_base, soup, i, seen, found, scan_limit,
                    Str(Strip(Chars[soup[i].text])), soup[i].href)

\* _filter_links(url_base, soup, scan_limit); soup is the page's a[href]
\* elements in document order.
_filter_links(url_base, soup, scan_limit) ==
  FilterLinksFrom(url_base, soup, 1, {}, <<>>, scan_limit)

\* A response is what the network gave: ok is "status 200 and no exception".
fetch_links_via_requests(url, response, scan_limit) ==
  IF ~response.ok THEN <<>>
  ELSE _filter_links(url, response.soup, scan_limit)

fetch_links_via_selenium(url, response, scan_limit) ==
  IF ~response.ok THEN <<>>
  ELSE _filter_links(url, response.soup, scan_limit)

\* A membership test that lets every link through.
belongs_to_section_Always(url, must_parts) == TRUE

\* path = urlsplit(url).path.lower()
LowerPathTable ==
  Tabulated([u \in DOMAIN Chars |-> Lower(urlsplit(Chars[u]).path)])

belongs_to_section(url, must_parts) ==
  \E k \in 1..Len(must_parts) :
    Contains(LowerPathTable[url], Chars[must_parts[k]])

(***************************************************************************)
(* Download and summary.                                                   *)
(***************************************************************************)

\* download_article_text(url): "" on a status other than 200 or an
\* exception, else the paragraphs' text.
download_article_text(url) ==
  IF url \in DOMAIN ARTICLES THEN ARTICLES[url] ELSE ""

\* s.split(sep)
RECURSIVE SplitOn(_, _)
SplitAt(cs, sep, i) ==
  IF i = 0 THEN <<cs>>
  ELSE <<SubSeq(cs, 1, i - 1)>> \o SplitOn(SubSeq(cs, i + Len(sep), Len(cs)), sep)

SplitOn(cs, sep) == SplitAt(cs, sep, Find(cs, sep))

\* sep.join(parts)
RECURSIVE Join(_, _)
Join(parts, sep) ==
  IF parts = <<>> THEN <<>>
  ELSE IF Len(parts) = 1 THEN parts[1]
  ELSE parts[1] \o sep \o Join(Tail(parts), sep)

\* s.rsplit(" ", 1)[0]
CutAt(cs, sp) == IF sp = {} THEN cs ELSE SubSeq(cs, 1, Max(sp) - 1)

BeforeLastSpace(cs) == CutAt(cs, {i \in 1..Len(cs) : cs[i] = " "})

\* Stands for the one character U+2026.
ELLIPSIS == "..."

\* [p.strip() for p in text.split(". ") if len(p.strip()) > 40]
StripAll(split) == [k \in 1..Len(split) |-> Strip(split[k])]

LongEnough(p) == Len(p) > 40

LongParts(cs) == SelectSeq(StripAll(SplitOn(cs, <<".", " ">>)), LongEnough)

\* parts[:n]
FirstN(parts, n) == SubSeq(parts, 1, IF Len(parts) < n THEN Len(parts) ELSE n)

\* The cut at max_chars.
Shorten(summary, max_chars) ==
  IF Len(summary) > max_chars
    THEN BeforeLastSpace(SubSeq(summary, 1, max_chars)) \o <<ELLIPSIS>>
    ELSE summary

summarize_text_chars(cs, max_chars) ==
  IF cs = <<>> THEN <<>>
  ELSE Shorten(Join(FirstN(LongParts(cs), 6), <<".", " ">>), max_chars)

SummaryTable ==
  Tabulated([s \in DOMAIN Chars |-> Str(summarize_text_chars(Chars[s], 900))])

summarize_text(text) == SummaryTable[text]

(***************************************************************************)
(* NYT feed.                                                               *)
(***************************************************************************)

\* The loop of fetch_nyt_rss over the <item> elements entries, from the
\* i-th on.
RssDescription(entry) ==
  IF entry.description = "" /\ entry.link # ""
    THEN summarize_text(download_article_text(entry.link))
    ELSE entry.description

RECURSIVE RssItemsFrom(_, _)
RssItemsFrom(entries, i) ==
  IF i > Len(entries) THEN <<>>
  ELSE IF entries[i].title # "" /\ entries[i].link # ""
    THEN <<<<entries[i].title, entries[i].link,
             summarize_text(RssDescription(entries[i]))>>>>
           \o RssItemsFrom(entries, i + 1)
  ELSE RssItemsFrom(entries, i + 1)

\* fetch_nyt_rss(feed_url, max_items): response.ok is "status 200 and no
\* exception"; response.items are the feed's <item> elements.
fetch_nyt_rss(response, max_items) ==
  IF ~response.ok THEN <<>>
  ELSE
    RssItemsFrom(FirstN(response.items, max_items), 1)

(***************************************************************************)
(* What the network may answer.                                            *)
(***************************************************************************)

\* The longest page or feed built from every combination of a pool.
MaxShort == 2

SeqsUpTo(S, n) == UNION {[1..k -> S] : k \in 0..n}

PoliticaPool == {aCamara, aCamaraT, aFutebol, aSelicPol}
EconomiaPool == {aSelicDup, aSelicEco, aCamaraEco}
FeedPool     == {nSelic, nSelicB, nNoTitle}

PoliticaLong ==
  { <<aCamara, aCamaraT, aCamaraU, aFutebol, aSenado, aStf, aGoverno, aSaude,
      aSelicPol>>,
    <<aCamara, aCamaraU, aCamaraT, aSenado, aStf>>,
    <<aCamara, aCamaraU, aVotou>>,
    <<aAssine, aLogin, aFrag, aSemHref, aStf, aStf, aSaude>>,
    <<aFutebol, aVeto, aCamara>> }

EconomiaLong ==
  { <<aSelicDup, aSelicEco, aPib, aSeguro, aCamaraEco, aCamara>> }

FeedLong ==
  { <<nSelic, nRates, nHealth, nVote, nCourt, nNoLink>>,
    <<nSelic, nSelic, nSelic, nSelic, nSelic, nSelic, nSelic, nSelic,
      nRates, nHealth, nVote, nCourt>> }

\* The pages a fetch of section s may get, as their a[href] elements.
Pages(s) ==
  IF SECTIONS[s].name = "Política"
    THEN SeqsUpTo(PoliticaPool, MaxShort) \cup PoliticaLong
    ELSE SeqsUpTo(EconomiaPool, MaxShort) \cup EconomiaLong

PageResponses(s) ==
  {[ok |-> FALSE, soup |-> <<>>]} \cup {[ok |-> TRUE, soup |-> p] : p \in Pages(s)}

Feeds == SeqsUpTo(FeedPool, MaxShort) \cup FeedLong

FeedResponses ==
  {[ok |-> FALSE, items |-> <<>>]} \cup {[ok |-> TRUE, items |-> f] : f \in Feeds}

IsHtml(s) == SECTIONS[s].jornal # "NYT"

\* What each fetch strategy may return for section s, over every response.
RequestsResults ==
  Tabulated([s \in {t \in 1..NSections : IsHtml(t)} |->
               {fetch_links_via_requests(SECTIONS[s].conf.url, r, SCAN_LIMIT) :
                  r \in PageResponses(s)}])

SeleniumResults ==
  Tabulated([s \in {t \in 1..NSections : IsHtml(t)} |->
               {fetch_links_via_selenium(SECTIONS[s].conf.url, r, SCAN_LIMIT) :
                  r \in PageResponses(s)}])

RssResults ==
  Tabulated([r \in FeedResponses |-> fetch_nyt_rss(r, RSS_MAX_ITEMS)])

(***************************************************************************)
(* The run.                                                                *)
(***************************************************************************)

VARIABLES
  pc,               \* where the run is
  error,            \* the exception being raised, "none" if none
  exit_code,        \* the process's exit status, -1 while it runs
  driver,           \* the headless browser: "none", "open", "quit"
  quit_calls,       \* how many times driver.quit() was called
  sec,              \* the section at hand, an index of SECTIONS
  calls,            \* per section, the fetch strategies invoked, in order
  links,            \* fetch_links_bulk: what the primary fetch returned
  feed_items,       \* fetch_nyt_rss: the feed's <item> elements
  raw_links,        \* the candidates being looped over
  idx,              \* the next candidate of raw_links
  section_items,    \* collect_section_items: the items accepted
  items,            \* rotina: the items of the section at hand
  collected,        \* rotina: the (section, items) of the jornal at hand
  news_per_source,  \* rotina: jornal -> its collected sections
  health_bucket,    \* rotina: the items of the health special
  seen_urls,        \* Deduper.seen_urls
  titles,           \* Deduper.titles
  html,             \* what build_html rendered
  attempt,          \* enviar_email: the cycle at hand
  mail_log,         \* the transports tried, in order
  sleeps,           \* the backoffs slept, in order
  sent,             \* how many times a server accepted the message
  fed,              \* Deduper harness: the (title, url) fed to is_dup, in order
  answers,          \* Deduper harness: what is_dup returned to each
  called,           \* function harness: the function called, "none" if none
  args,             \* function harness: its arguments
  result            \* function harness: what it returned

vars == <<pc, error, exit_code, driver, quit_calls, sec, calls, links, feed_items,
          raw_links, idx, section_items, items, collected, news_per_source,
          health_bucket, seen_urls, titles, html, attempt, mail_log, sleeps,
          sent, fed, answers, called, args, result>>

mailVars    == <<attempt, mail_log, sleeps, sent>>
dedupVars   == <<seen_urls, titles>>
resultVars  == <<collected, news_per_source, health_bucket, html>>
processVars == <<error, exit_code, driver, quit_calls>>
loopVars    == <<links, feed_items, raw_links, idx, section_items, items>>
harnessVars == <<fed, answers, called, args, result>>

Init ==
  /\ pc = "gate"
  /\ error = "none"
  /\ exit_code = -1
  /\ driver = "none"
  /\ quit_calls = 0
  /\ sec = 0
  /\ calls = [s \in 1..NSections |-> <<>>]
  /\ links = <<>>
  /\ feed_items = <<>>
  /\ raw_links = <<>>
  /\ idx = 1
  /\ section_items = <<>>
  /\ items = <<>>
  /\ collected = <<>>
  /\ news_per_source = <<>>
  /\ health_bucket = <<>>
  /\ seen_urls = {}
  /\ titles = <<>>
  /\ html = <<>>
  /\ attempt = 0
  /\ mail_log = <<>>
  /\ sleeps = <<>>
  /\ sent = 0
  /\ fed = <<>>
  /\ answers = <<>>
  /\ called = "none"
  /\ args = <<>>
  /\ result = <<>>

\* rotina: should_send_now() is False and the run returns at once.
GateClosed ==
  /\ pc = "gate"
  /\ pc' = "exit"
  /\ UNCHANGED <<processVars, sec, calls, loopVars, resultVars, dedupVars,
                 mailVars, harnessVars>>

\* rotina: should_send_now() is True.
GateOpen ==
  /\ pc = "gate"
  /\ pc' = "get_driver"
  /\ UNCHANGED <<processVars, sec, calls, loopVars, resultVars, dedupVars,
                 mailVars, harnessVars>>

\* A loop over SECTIONS that reads a feed for every section.
SectionEntryFeedOnly(s) == IF s > NSections THEN "build" ELSE "rss"

\* Where the loop over SECTIONS goes for section s: the NYT branch reads
\* the feed, the others fetch the section's page.
SectionEntry(s) ==
  IF s > NSections THEN "build"
  ELSE IF IsHtml(s) THEN "requests"
  ELSE "rss"

\* get_driver() returns; rotina enters the try block and makes the Deduper.
GetDriver ==
  /\ pc = "get_driver"
  /\ driver' = "open"
  /\ seen_urls' = {}
  /\ titles' = <<>>
  /\ sec' = 1
  /\ pc' = SectionEntry(1)
  /\ UNCHANGED <<error, exit_code, quit_calls, calls, loopVars, resultVars,
                 mailVars, harnessVars>>

\* get_driver() raises (no chromedriver, Chrome does not start): the call
\* is outside the try block, so rotina raises to __main__.
GetDriverFails ==
  /\ pc = "get_driver"
  /\ error' = "driver"
  /\ pc' = "exit"
  /\ UNCHANGED <<exit_code, driver, quit_calls, sec, calls, loopVars,
                 resultVars, dedupVars, mailVars, harnessVars>>

\* fetch_links_bulk: the primary fetch.
ViaRequests ==
  /\ pc = "requests"
  /\ \E got \in RequestsResults[sec] : links' = got
  /\ calls' = [calls EXCEPT ![sec] = Append(@, "requests")]
  /\ pc' = "bulk"
  /\ UNCHANGED <<processVars, sec, feed_items, raw_links, idx, section_items,
                 items, resultVars, dedupVars, mailVars, harnessVars>>

\* A fetch_links_bulk that renders the page whatever the primary fetch gave.
UseRenderedAlways(primary) == TRUE

\* fetch_links_bulk: the rendered fetch is used when the primary fetch gave
\* no links ("if links: return links").
UseRendered(primary) == primary = <<>>

\* fetch_links_bulk: the primary fetch gave links, which are returned.
BulkReturn ==
  /\ pc = "bulk"
  /\ ~UseRendered(links)
  /\ raw_links' = links
  /\ idx' = 1
  /\ section_items' = <<>>
  /\ pc' = "collect"
  /\ UNCHANGED <<processVars, sec, calls, links, feed_items, items, resultVars,
                 dedupVars, mailVars, harnessVars>>

\* fetch_links_bulk: the primary fetch gave nothing; the rendered fetch.
ViaSelenium ==
  /\ pc = "bulk"
  /\ UseRendered(links)
  /\ \E got \in SeleniumResults[sec] : raw_links' = got
  /\ calls' = [calls EXCEPT ![sec] = Append(@, "selenium")]
  /\ idx' = 1
  /\ section_items' = <<>>
  /\ pc' = "collect"
  /\ UNCHANGED <<processVars, sec, links, feed_items, items, resultVars,
                 dedupVars, mailVars, harnessVars>>

\* A break that comes one item late.
QuotaReachedOneLate(held, want) == Len(held) > want

\* The loops over candidates end when the list is exhausted or, by the
\* break, as soon as want items are held.
QuotaReached(held, want) == Len(held) >= want

\* A loop that gives up after examining as many candidates as it wants items.
LoopOverFirstWanted(list, i, held, want) ==
  i <= Len(list) /\ i <= want /\ ~QuotaReached(held, want)

LoopOver(list, i, held, want) == i <= Len(list) /\ ~QuotaReached(held, want)

\* An append that drops the item whose summary is empty.
AppendItemUnlessEmpty(held, title, link, summary) ==
  IF summary = "" THEN held ELSE Append(held, <<title, link, summary>>)

\* section_items.append((title, link, summary))
AppendItem(held, title, link, summary) == Append(held, <<title, link, summary>>)

\* A loop that consults the Deduper before the membership test.
CollectStepDedupFirst ==
  /\ pc = "collect"
  /\ LoopOver(raw_links, idx, section_items, WANT_PER_SECTION)
  /\ LET title == raw_links[idx][1]
         link  == raw_links[idx][2]
         d     == is_dup(seen_urls, titles, title, link)
     IN  /\ seen_urls' = d.seen_urls
         /\ titles' = d.titles
         /\ section_items' =
              IF d.dup \/ ~belongs_to_section(link, SECTIONS[sec].conf.path_must_include)
                THEN section_items
              ELSE AppendItem(section_items, title, link,
                              summarize_text(download_article_text(link)))
  /\ idx' = idx + 1
  /\ UNCHANGED <<pc, processVars, sec, calls, links, feed_items, raw_links,
                 items, resultVars, mailVars, harnessVars>>

\* collect_section_items: one turn of the loop over raw_links.
CollectStep ==
  /\ pc = "collect"
  /\ LoopOver(raw_links, idx, section_items, WANT_PER_SECTION)
  /\ LET title == raw_links[idx][1]
         link  == raw_links[idx][2]
         d     == is_dup(seen_urls, titles, title, link)
     IN  IF ~belongs_to_section(link, SECTIONS[sec].conf.path_must_include)
           THEN UNCHANGED <<section_items, dedupVars>>
         ELSE
           /\ seen_urls' = d.seen_urls
           /\ titles' = d.titles
           /\ section_items' =
                IF d.dup THEN section_items
                ELSE AppendItem(section_items, title, link,
                                summarize_text(download_article_text(link)))
  /\ idx' = idx + 1
  /\ UNCHANGED <<pc, processVars, sec, calls, links, feed_items, raw_links,
                 items, resultVars, mailVars, harnessVars>>

\* any(normalize_kw(k) in t_norm for k in HEALTH_KEYWORDS)
HealthTable ==
  Tabulated([s \in DOMAIN Chars |->
               \E k \in HEALTH_KEYWORDS :
                 Contains(normalize_kw_chars(Chars[s]), normalize_kw_chars(Chars[k]))])

is_health(title) == HealthTable[title]

HealthOf(its) ==
  LET hit == SelectSeq(its, LAMBDA it : is_health(it[1]))
  IN  [k \in 1..Len(hit) |-> <<hit[k][1], hit[k][2], hit[k][3]>>]

is_econ_html(section_name) ==
  Str(Lower(Chars[section_name])) \in {"economia", "finanças", "empresas"}

is_econ_nyt(section_name) ==
  Str(Lower(Chars[section_name])) \in {"finance", "business"}

\* The end of a section: its entry joins collected, and collected joins
\* news_per_source when the jornal has no further section.
LastOfJornal(s) == s = NSections \/ SECTIONS[s + 1].jornal # SECTIONS[s].jornal

\* A filing that leaves out the sections that collected nothing.
CloseSectionSkipEmpty(its) ==
  LET coll == IF its = <<>> THEN collected
              ELSE Append(collected, <<SECTIONS[sec].name, its>>)
  IN  /\ collected' = IF LastOfJornal(sec) THEN <<>> ELSE coll
      /\ news_per_source' =
           IF LastOfJornal(sec)
             THEN Append(news_per_source, <<SECTIONS[sec].jornal, coll>>)
             ELSE news_per_source
      /\ sec' = sec + 1
      /\ pc' = SectionEntry(sec + 1)
      /\ links' = <<>>
      /\ feed_items' = <<>>
      /\ raw_links' = <<>>
      /\ idx' = 1
      /\ section_items' = <<>>
      /\ items' = <<>>

CloseSection(its) ==
  LET coll == Append(collected, <<SECTIONS[sec].name, its>>)
  IN  /\ collected' = IF LastOfJornal(sec) THEN <<>> ELSE coll
      /\ news_per_source' =
           IF LastOfJornal(sec)
             THEN Append(news_per_source, <<SECTIONS[sec].jornal, coll>>)
             ELSE news_per_source
      /\ sec' = sec + 1
      /\ pc' = SectionEntry(sec + 1)
      /\ links' = <<>>
      /\ feed_items' = <<>>
      /\ raw_links' = <<>>
      /\ idx' = 1
      /\ section_items' = <<>>
      /\ items' = <<>>

\* collect_section_items returns; rotina tags its items and files the
\* section.
CollectReturn ==
  /\ pc = "collect"
  /\ ~LoopOver(raw_links, idx, section_items, WANT_PER_SECTION)
  /\ LET its == [k \in 1..Len(section_items) |->
                   <<section_items[k][1], section_items[k][2], section_items[k][3],
                     is_econ_html(SECTIONS[sec].name)>>]
     IN  /\ health_bucket' = health_bucket \o HealthOf(its)
         /\ CloseSection(its)
  /\ UNCHANGED <<processVars, calls, dedupVars, html, mailVars, harnessVars>>

\* rotina, NYT branch: fetch_nyt_rss.
FetchRss ==
  /\ pc = "rss"
  /\ \E r \in FeedResponses :
       /\ feed_items' = r.items
       /\ raw_links' = RssResults[r]
  /\ calls' = [calls EXCEPT ![sec] = Append(@, "rss")]
  /\ idx' = 1
  /\ items' = <<>>
  /\ pc' = "rss_loop"
  /\ UNCHANGED <<processVars, sec, links, section_items, resultVars, dedupVars,
                 mailVars, harnessVars>>

\* rotina, NYT branch: one turn of the loop over the feed's entries.
RssStep ==
  /\ pc = "rss_loop"
  /\ LoopOver(raw_links, idx, items, WANT_PER_SECTION)
  /\ LET title   == raw_links[idx][1]
         link    == raw_links[idx][2]
         summary == raw_links[idx][3]
         d       == is_dup(seen_urls, titles, title, link)
     IN  /\ seen_urls' = d.seen_urls
         /\ titles' = d.titles
         /\ items' = IF d.dup THEN items
                     ELSE Append(items, <<title, link, summary,
                                          is_econ_nyt(SECTIONS[sec].name)>>)
         /\ health_bucket' =
              IF ~d.dup /\ is_health(title)
                THEN Append(health_bucket, <<title, link, summary>>)
                ELSE health_bucket
  /\ idx' = idx + 1
  /\ UNCHANGED <<pc, processVars, sec, calls, links, feed_items, raw_links,
                 section_items, collected, news_per_source, html, mailVars,
                 harnessVars>>

\* rotina, NYT branch: the section is filed.
RssReturn ==
  /\ pc = "rss_loop"
  /\ ~LoopOver(raw_links, idx, items, WANT_PER_SECTION)
  /\ CloseSection(items)
  /\ UNCHANGED <<processVars, calls, health_bucket, dedupVars, html, mailVars,
                 harnessVars>>

\* build_html: the sections rendered, jornal by jornal, empty ones left out.
build_html(news, health) ==
  [sections |->
     [j \in 1..Len(news) |->
        <<news[j][1], SelectSeq(news[j][2], LAMBDA block : block[2] # <<>>)>>],
   health |-> health]

BuildHtml ==
  /\ pc = "build"
  /\ html' = build_html(news_per_source, health_bucket)
  /\ pc' = "mail"
  /\ UNCHANGED <<processVars, sec, calls, loopVars, collected, news_per_source,
                 health_bucket, dedupVars, mailVars, harnessVars>>

\* enviar_email: EMAIL_USER, EMAIL_PASS or DEST_EMAIL is not set.
MailNotConfigured ==
  /\ pc = "mail"
  /\ error' = "credentials"
  /\ pc' = "finally"
  /\ UNCHANGED <<exit_code, driver, quit_calls, sec, calls, loopVars,
                 resultVars, dedupVars, mailVars, harnessVars>>

\* enviar_email: the message is built and the first cycle starts.
MailStart ==
  /\ pc = "mail"
  /\ attempt' = 1
  /\ pc' = "ssl"
  /\ UNCHANGED <<processVars, sec, calls, loopVars, resultVars, dedupVars,
                 mail_log, sleeps, sent, harnessVars>>

MAIL_ATTEMPTS == 3

Backoff(n) == 2 * n

\* An enviar_email that goes on to STARTTLS whatever SSL gave.
AfterSslTryBoth(ok) == "tls"

\* What follows _try_ssl(): the return, or STARTTLS when it raised.
AfterSsl(ok) == IF ok THEN "finally" ELSE "tls"

\* enviar_email: _try_ssl().
TrySsl ==
  /\ pc = "ssl"
  /\ mail_log' = Append(mail_log, "ssl")
  /\ \E ok \in BOOLEAN :
       /\ sent' = IF ok THEN sent + 1 ELSE sent
       /\ pc' = AfterSsl(ok)
  /\ UNCHANGED <<processVars, sec, calls, loopVars, resultVars, dedupVars,
                 attempt, sleeps, harnessVars>>

\* An enviar_email that gives up one cycle early.
AfterCycleOneShort(n) == IF n < MAIL_ATTEMPTS - 1 THEN "ssl" ELSE "raise"

\* What follows a cycle whose two transports failed: the next cycle, or the
\* RuntimeError after the last one.
AfterCycle(n) == IF n < MAIL_ATTEMPTS THEN "ssl" ELSE "raise"

\* enviar_email: _try_tls(), and the sleep after a cycle that failed.
TryTls ==
  /\ pc = "tls"
  /\ mail_log' = Append(mail_log, "starttls")
  /\ \E ok \in BOOLEAN :
       IF ok
         THEN /\ sent' = sent + 1
              /\ pc' = "finally"
              /\ UNCHANGED <<attempt, sleeps>>
         ELSE /\ sleeps' = Append(sleeps, Backoff(attempt))
              /\ attempt' = attempt + 1
              /\ pc' = AfterCycle(attempt)
              /\ UNCHANGED sent
  /\ UNCHANGED <<processVars, sec, calls, loopVars, resultVars, dedupVars,
                 harnessVars>>

\* A delivery error that leaves rotina without passing the finally clause.
MailRaiseNoFinally ==
  /\ pc = "raise"
  /\ error' = "delivery"
  /\ pc' = "exit"
  /\ UNCHANGED <<exit_code, driver, quit_calls, sec, calls, loopVars,
                 resultVars, dedupVars, mailVars, harnessVars>>

\* enviar_email: every cycle failed.
MailRaise ==
  /\ pc = "raise"
  /\ error' = "delivery"
  /\ pc' = "finally"
  /\ UNCHANGED <<exit_code, driver, quit_calls, sec, calls, loopVars,
                 resultVars, dedupVars, mailVars, harnessVars>>

\* rotina: finally: driver.quit().
DriverQuit ==
  /\ pc = "finally"
  /\ driver' = "quit"
  /\ quit_calls' = quit_calls + 1
  /\ pc' = "exit"
  /\ UNCHANGED <<error, exit_code, sec, calls, loopVars, resultVars, dedupVars,
                 mailVars, harnessVars>>

\* __main__: sys.exit(1) on an exception, a normal end otherwise.
Exit ==
  /\ pc = "exit"
  /\ exit_code' = IF error = "none" THEN 0 ELSE 1
  /\ pc' = "done"
  /\ UNCHANGED <<error, driver, quit_calls, sec, calls, loopVars, resultVars,
                 dedupVars, mailVars, harnessVars>>

Next ==
  \/ GateClosed
  \/ GateOpen
  \/ GetDriver
  \/ GetDriverFails
  \/ ViaRequests
  \/ BulkReturn
  \/ ViaSelenium
  \/ CollectStep
  \/ CollectReturn
  \/ FetchRss
  \/ RssStep
  \/ RssReturn
  \/ BuildHtml
  \/ MailNotConfigured
  \/ MailStart
  \/ TrySsl
  \/ TryTls
  \/ MailRaise
  \/ DriverQuit
  \/ Exit

Spec == Init /\ [][Next]_vars

(***************************************************************************)
(* One Deduper on its own: a fresh instance fed any pairs in any order.    *)
(***************************************************************************)

\* The most calls made on the instance.
MaxFed == 4

\* The (title, url) pairs fed: pairs that share a canonical URL, pairs whose
\* titles are near-identical, pairs that share neither, and an empty title.
DeduperPool ==
  { <<"Câmara aprova reforma tributária", "https://www.estadao.com.br/politica/camara">>,
    <<"Veja como votou cada deputado", "http://ESTADAO.com.br/politica/camara/?utm=x">>,
    <<"Camara aprova a reforma tributaria", "http://estadao.com.br/politica/camara-2">>,
    <<"Veja como votou cada deputado!", "https://www.estadao.com.br/politica/votacao">>,
    <<"Selic sobe para 10%", "https://www.nytimes.com/world/selic">>,
    <<"Selic sobe para 10%", "https://www.nytimes.com/business/selic">>,
    <<"Selic sobe para 10% ao ano", "https://economia.estadao.com.br/economia/selic">>,
    <<"", "https://www.nytimes.com/world/untitled">> }

\* deduper.is_dup(title, url) on the instance.
IsDupCall ==
  /\ Len(fed) < MaxFed
  /\ \E c \in DeduperPool :
       /\ fed' = Append(fed, c)
       /\ answers' = Append(answers, is_dup(seen_urls, titles, c[1], c[2]).dup)
       /\ seen_urls' = is_dup(seen_urls, titles, c[1], c[2]).seen_urls
       /\ titles' = is_dup(seen_urls, titles, c[1], c[2]).titles
  /\ UNCHANGED <<pc, processVars, sec, calls, loopVars, resultVars, mailVars,
                 called, args, result>>

NextDeduper == IsDupCall

SpecDeduper == Init /\ [][NextDeduper]_vars

(***************************************************************************)
(* What the run has accepted, and when two candidates collide.             *)
(***************************************************************************)

IsPrefix(s, t) == Len(s) <= Len(t) /\ SubSeq(t, 1, Len(s)) = s

Last(s) == s[Len(s)]

\* The (title, link) of each item of a list of items.
TitleLink(its) == [k \in 1..Len(its) |-> <<its[k][1], its[k][2]>>]

\* The items of a list of (section, items), in order.
RECURSIVE BlockItems(_)
BlockItems(blocks) ==
  IF blocks = <<>> THEN <<>>
  ELSE TitleLink(Head(blocks)[2]) \o BlockItems(Tail(blocks))

\* The items of a list of (jornal, collected), in order.
RECURSIVE SourceItems(_)
SourceItems(news) ==
  IF news = <<>> THEN <<>>
  ELSE BlockItems(Head(news)[2]) \o SourceItems(Tail(news))

\* The items the section at hand has accepted.
CurrentItems == TitleLink(section_items) \o TitleLink(items)

\* Every item the run has accepted, in the order of acceptance.
AcceptedSoFar ==
  SourceItems(news_per_source) \o BlockItems(collected) \o CurrentItems

\* The two ways a (title, link) collides with another.
SameArticle(a, b) == normalize_url(a[2]) = normalize_url(b[2])

SimilarTitle(a, b) == AtLeastThreshold(title_similarity(a[1], b[1]))

Collide(a, b) == SameArticle(a, b) \/ SimilarTitle(a, b)

\* The run is in a loop over candidates.
InLoop == pc \in {"collect", "rss_loop"}

\* The loop over candidates of the section at hand is over.
SectionDone ==
  \/ pc = "collect" /\ ~LoopOver(raw_links, idx, section_items, WANT_PER_SECTION)
  \/ pc = "rss_loop" /\ ~LoopOver(raw_links, idx, items, WANT_PER_SECTION)

\* The Deduper as the section at hand found it.
TitlesAtEntry == SubSeq(titles, 1, Len(titles) - Len(CurrentItems))

SeenAtEntry ==
  seen_urls \ {normalize_url(CurrentItems[k][2]) : k \in 1..Len(CurrentItems)}

\* Candidate c passes the membership rule of the section at hand (a feed
\* section has none).
Matches(c) ==
  IF IsHtml(sec) THEN belongs_to_section(c[2], SECTIONS[sec].conf.path_must_include)
  ELSE TRUE

\* Candidate c collides with nothing the Deduper held when the section began.
NovelAtEntry(c) ==
  /\ normalize_url(c[2]) \notin SeenAtEntry
  /\ \A i \in 1..Len(TitlesAtEntry) :
       ~AtLeastThreshold(title_similarity(TitlesAtEntry[i], c[1]))

(***************************************************************************)
(* C1                                                                      *)
(***************************************************************************)

NoCollision(acc) ==
  \A i, j \in 1..Len(acc) : i < j => ~Collide(acc[i], acc[j])

\* C1: at every moment of a run, no two distinct items accepted so far, in
\* any section of any source, have the same canonical URL or titles whose
\* similarity reaches the threshold.
C1_GlobalDedup == NoCollision(AcceptedSoFar)

\* A feed section has just turned down an entry whose title an item of an
\* Estadão section carries under another URL, with two items accepted.
C1_Witness ==
  /\ pc = "rss_loop"
  /\ idx > 1
  /\ Len(AcceptedSoFar) >= 2
  /\ <<raw_links[idx - 1][1], raw_links[idx - 1][2]>> \notin
       {AcceptedSoFar[k] : k \in 1..Len(AcceptedSoFar)}
  /\ \E k \in 1..Len(SourceItems(news_per_source)) :
       /\ SimilarTitle(SourceItems(news_per_source)[k], raw_links[idx - 1])
       /\ ~SameArticle(SourceItems(news_per_source)[k], raw_links[idx - 1])

(***************************************************************************)
(* C2                                                                      *)
(***************************************************************************)

\* The candidates the source of the section at hand offered: the links of
\* its page, or every entry of its feed that has a title and a link.
Offered ==
  IF IsHtml(sec) THEN raw_links
  ELSE fetch_nyt_rss([ok |-> TRUE, items |-> feed_items], Len(feed_items))

\* Some want candidates among those of list at the positions good are novel
\* to each other.
MutuallyNovel(list, good, want) ==
  \E S \in SUBSET good :
    /\ Cardinality(S) = want
    /\ \A i, j \in S : i < j => ~Collide(list[i], list[j])

RuleMatchingNovel(list) ==
  {i \in 1..Len(list) : Matches(list[i]) /\ NovelAtEntry(list[i])}

\* C2 as the spec states it: whenever the source of a section offers at
\* least the quota of rule-matching candidates that are novel to the dedup
\* state and to each other, the section accepts exactly the quota, wherever
\* those candidates sit among the others.
C2_Original ==
  (SectionDone /\ MutuallyNovel(Offered, RuleMatchingNovel(Offered), WANT_PER_SECTION))
    => Len(CurrentItems) = WANT_PER_SECTION

\* The candidates of list that the loop reaches fresh: rule-matching, novel
\* to the dedup state at entry, and colliding with no rule-matching
\* candidate before them in the list.
Fresh(list) ==
  {i \in RuleMatchingNovel(list) :
     \A j \in 1..(i - 1) : Matches(list[j]) => ~Collide(list[j], list[i])}

\* C2: a section never accepts more than its quota, and when the list its
\* fetch returned (for a feed, those of its first eight entries that have a title
\* and a link) holds at least the quota of candidates that are
\* rule-matching, novel to the dedup state at entry and in collision with
\* no rule-matching candidate before them in the list, it accepts exactly
\* the quota, however many duplicates sit between them.
C2_QuotaReplenishment ==
  /\ Len(CurrentItems) <= WANT_PER_SECTION
  /\ (SectionDone /\ Cardinality(Fresh(raw_links)) >= WANT_PER_SECTION)
       => Len(CurrentItems) = WANT_PER_SECTION

\* A section filled its quota from a list in which a duplicate and a link
\* of another section sat before the fourth fresh candidate.
C2_Witness ==
  /\ SectionDone
  /\ Cardinality(Fresh(raw_links)) >= WANT_PER_SECTION
  /\ Len(CurrentItems) = WANT_PER_SECTION
  /\ \E i \in 1..(idx - 1) : ~Matches(raw_links[i])
  /\ \E i \in 1..(idx - 1) : Matches(raw_links[i]) /\ i \notin Fresh(raw_links)

(***************************************************************************)
(* C3                                                                      *)
(***************************************************************************)

\* C3 as the spec states it, for the links of one page: of two rule-matching
\* candidates that collide, the later one is never the accepted one.
C3_Original ==
  pc = "collect" =>
    \A i, j \in 1..(idx - 1) :
      (i < j /\ Matches(raw_links[i]) /\ Matches(raw_links[j])
         /\ Collide(raw_links[i], raw_links[j]))
        => raw_links[j] \notin {CurrentItems[k] : k \in 1..Len(CurrentItems)}

\* The step examines the candidate raw_links[idx].
Examines == InLoop /\ idx' = idx + 1

\* C3: an accepted item is never displaced: the items accepted so far stay,
\* in their order, and a candidate that collides with one of them, from this
\* section or an earlier one, is turned down.
C3_FirstSeenWins ==
  [][ /\ IsPrefix(AcceptedSoFar, AcceptedSoFar')
      /\ (Examines /\ \E k \in 1..Len(AcceptedSoFar) :
                        Collide(AcceptedSoFar[k], raw_links[idx]))
           => AcceptedSoFar' = AcceptedSoFar ]_vars

\* Section General accepted ("Selic sobe para 10%", X); section Business
\* was offered the same title under another canonical URL and turned it
\* down.
C3_Witness ==
  /\ pc = "rss_loop"
  /\ SECTIONS[sec].name = "Business"
  /\ idx > 1
  /\ raw_links[idx - 1][1] = "Selic sobe para 10%"
  /\ CurrentItems = <<>>
  /\ \E k \in 1..Len(AcceptedSoFar) :
       /\ AcceptedSoFar[k][1] = "Selic sobe para 10%"
       /\ ~SameArticle(AcceptedSoFar[k], raw_links[idx - 1])
  /\ Last(collected)[1] = "General"
  /\ \E k \in 1..Len(Last(collected)[2]) :
       Last(collected)[2][k][1] = "Selic sobe para 10%"

(***************************************************************************)
(* C4                                                                      *)
(***************************************************************************)

\* The call is_dup(c) made in the state (seen, tl) answered ret and left
\* the state (seen2, tl2) as the decision order prescribes.
Decided(seen, tl, c, ret, seen2, tl2) ==
  IF normalize_url(c[2]) \in seen
    THEN ret = TRUE /\ seen2 = seen /\ tl2 = tl
  ELSE IF \E i \in 1..Len(tl) : AtLeastThreshold(title_similarity(tl[i], c[1]))
    THEN ret = TRUE /\ seen2 = seen /\ tl2 = tl
  ELSE /\ ret = FALSE
       /\ seen2 = seen \cup {normalize_url(c[2])}
       /\ tl2 = Append(tl, c[1])

\* C4: every call is_dup(title, url) answers true when the canonical URL is
\* in seen_urls, else true when a title of titles is similar enough, else
\* false after recording the canonical URL and the title; a call that
\* answers true changes neither seen_urls nor titles, and the answer and
\* the recording are one step.
C4_IsDupDecision ==
  [][ /\ Len(fed') = Len(fed) + 1
      /\ Len(answers') = Len(fed')
      /\ Decided(seen_urls, titles, Last(fed'), Last(answers'), seen_urls', titles')
    ]_vars

\* Three calls took the three branches: a novel pair, then a pair with its
\* canonical URL and another title, then a pair with a near-identical title
\* and another canonical URL.
C4_Witness ==
  /\ answers = <<FALSE, TRUE, TRUE>>
  /\ SameArticle(fed[1], fed[2]) /\ ~SimilarTitle(fed[1], fed[2])
  /\ ~SameArticle(fed[1], fed[3]) /\ SimilarTitle(fed[1], fed[3])
  /\ titles = <<fed[1][1]>>
  /\ seen_urls = {normalize_url(fed[1][2])}

(***************************************************************************)
(* C5                                                                      *)
(***************************************************************************)

\* C5: the same pair fed twice in a row to a fresh Deduper is answered false
\* then true, and no call makes seen_urls or titles lose an element or grow
\* by more than one.
C5_MonotoneIdempotent ==
  [][ /\ seen_urls \subseteq seen_urls'
      /\ Cardinality(seen_urls') <= Cardinality(seen_urls) + 1
      /\ IsPrefix(titles, titles')
      /\ Len(titles') <= Len(titles) + 1
      /\ (Len(fed') = 2 /\ fed'[1] = fed'[2]) => answers' = <<FALSE, TRUE>>
    ]_vars

\* A pair was fed twice to a fresh Deduper, answered false then true, and a
\* third call made the state grow again.
C5_Witness ==
  /\ Len(fed) = 3
  /\ fed[1] = fed[2]
  /\ answers = <<FALSE, TRUE, FALSE>>
  /\ Len(titles) = 2
  /\ Cardinality(seen_urls) = 2

(***************************************************************************)
(* C6                                                                      *)
(***************************************************************************)

\* fetch_links_bulk has returned for the section at hand.
BulkReturned == pc = "collect"

\* C6: for every section fetched as a page, the primary fetch is invoked
\* once and first, and the rendered fetch at most once after it; once
\* fetch_links_bulk has returned, the rendered fetch was invoked if and only
\* if the primary fetch returned no candidate, and otherwise the candidates
\* looped over are those the primary fetch returned.
C6_FallbackOrdering ==
  /\ \A s \in 1..NSections :
       IsHtml(s) => calls[s] \in {<<>>, <<"requests">>, <<"requests", "selenium">>}
  /\ pc = "bulk" => calls[sec] = <<"requests">>
  /\ BulkReturned =>
       /\ calls[sec] = <<"requests", "selenium">> <=> links = <<>>
       /\ calls[sec] = <<"requests">> <=> links # <<>>
       /\ links # <<>> => raw_links = links

\* The first section fell back to the rendered fetch, which found links;
\* the second was served by its primary fetch alone.
C6_Witness ==
  /\ BulkReturned
  /\ sec = 2
  /\ calls[1] = <<"requests", "selenium">>
  /\ AcceptedSoFar # <<>>
  /\ calls[2] = <<"requests">>
  /\ raw_links # <<>>
  /\ raw_links = links

(***************************************************************************)
(* C7                                                                      *)
(***************************************************************************)

HasFeed(s) == "rss" \in DOMAIN SECTIONS[s].conf

Tried(s, strategy) == \E k \in 1..Len(calls[s]) : calls[s][k] = strategy

\* C7 as the spec states it: the feed fetch of a section is invoked only if
\* the section has a feed endpoint and the primary and the rendered fetch
\* of that section were tried before it.
C7_Original ==
  \A s \in 1..NSections :
    Tried(s, "rss") =>
      /\ HasFeed(s)
      /\ \E i, j, k \in 1..Len(calls[s]) :
           /\ i < j /\ j < k
           /\ calls[s][i] = "requests"
           /\ calls[s][j] = "selenium"
           /\ calls[s][k] = "rss"

\* C7: the feed fetch of a section is invoked only if the section has a
\* feed endpoint, and then it is the one strategy of that section, invoked
\* once with neither the primary nor the rendered fetch before or after it;
\* a section without a feed endpoint never reads a feed, whatever its
\* primary and rendered fetch gave.
C7_FeedFetch ==
  \A s \in 1..NSections :
    /\ Tried(s, "rss") => (HasFeed(s) /\ calls[s] = <<"rss">>)
    /\ HasFeed(s) => calls[s] \in {<<>>, <<"rss">>}
    /\ (HasFeed(s) /\ s < sec) => calls[s] = <<"rss">>

\* A page section ended empty after both its fetches and read no feed; a
\* feed section read its feed without trying either page fetch.
C7_Witness ==
  /\ pc = "rss_loop"
  /\ calls[1] = <<"requests", "selenium">>
  /\ \E j \in 1..Len(news_per_source) :
       \E b \in 1..Len(news_per_source[j][2]) :
         /\ news_per_source[j][2][b][1] = SECTIONS[1].name
         /\ news_per_source[j][2][b][2] = <<>>
  /\ HasFeed(sec)
  /\ calls[sec] = <<"rss">>
  /\ raw_links # <<>>

(***************************************************************************)
(* C8                                                                      *)
(***************************************************************************)

\* The transports alternate, SSL first.
Alternates(log) ==
  \A k \in 1..Len(log) : log[k] = IF k % 2 = 1 THEN "ssl" ELSE "starttls"

StrictlyIncreasing(s) == \A k \in 1..(Len(s) - 1) : s[k] < s[k + 1]

\* C8: enviar_email raises its delivery error only after three cycles of an
\* SSL attempt followed by a STARTTLS attempt, six attempts in that order,
\* with a longer backoff after each cycle than after the one before; it
\* never makes a seventh attempt.
C8_RetryExhaustion ==
  /\ Len(mail_log) <= 2 * MAIL_ATTEMPTS
  /\ Alternates(mail_log)
  /\ StrictlyIncreasing(sleeps)
  /\ (pc = "raise" \/ error = "delivery") =>
       /\ mail_log = <<"ssl", "starttls", "ssl", "starttls", "ssl", "starttls">>
       /\ sleeps = <<2, 4, 6>>

\* Both transports failed in every cycle and the process ended on the
\* delivery error.
C8_Witness ==
  /\ pc = "done"
  /\ error = "delivery"
  /\ exit_code = 1
  /\ Len(mail_log) = 6
  /\ Len(sleeps) = 3

(***************************************************************************)
(* C9                                                                      *)
(***************************************************************************)

\* The (jornal, section, items) of a list of (section, items).
EntriesOf(jornal, blocks) ==
  [k \in 1..Len(blocks) |-> <<jornal, blocks[k][1], blocks[k][2]>>]

RECURSIVE SourceEntries(_)
SourceEntries(news) ==
  IF news = <<>> THEN <<>>
  ELSE EntriesOf(Head(news)[1], Head(news)[2]) \o SourceEntries(Tail(news))

\* The entries the run has filed, in order.
Entries ==
  SourceEntries(news_per_source) \o
    (IF collected = <<>> THEN <<>> ELSE EntriesOf(SECTIONS[sec].jornal, collected))

\* The sections are all filed.
Collected == pc \in {"build", "mail", "ssl", "tls", "raise"}

\* C9: whatever each fetch gives, the run files the configured sections one
\* by one in their configured order, so that the result handed to assembly
\* holds one entry per configured section; a section whose fetches gave
\* nothing, or whose candidates were all filtered out, is filed with an
\* empty list and leaves the Deduper as it found it; and an entry, once
\* filed, never changes.
C9_NeverPartiallyFails ==
  /\ [](/\ sec = 0 => Entries = <<>>
        /\ sec > 0 =>
             /\ Len(Entries) = sec - 1
             /\ \A k \in 1..Len(Entries) :
                  /\ Entries[k][1] = SECTIONS[k].jornal
                  /\ Entries[k][2] = SECTIONS[k].name
        /\ Collected => Len(Entries) = NSections
        /\ (SectionDone /\ \A i \in 1..Len(raw_links) : ~Matches(raw_links[i])) =>
             /\ CurrentItems = <<>>
             /\ seen_urls = SeenAtEntry
             /\ titles = TitlesAtEntry)
  /\ [][ /\ IsPrefix(Entries, Entries')
         /\ (SectionDone /\ sec' = sec + 1) =>
              /\ Len(Entries') = Len(Entries) + 1
              /\ TitleLink(Last(Entries')[3]) = CurrentItems ]_vars

\* All four sections are filed: the second one, whose two fetches gave
\* nothing, with an empty list, between sections that collected items.
C9_Witness ==
  /\ pc = "build"
  /\ Len(Entries) = NSections
  /\ calls[2] = <<"requests", "selenium">>
  /\ Entries[1][3] # <<>>
  /\ Entries[2][3] = <<>>
  /\ Entries[3][3] # <<>>
  /\ Entries[4][3] = <<>>

(***************************************************************************)
(* C10                                                                     *)
(***************************************************************************)

\* C10 as the spec states it: a run that passed the schedule gate ends with
\* a non-zero outcome only on the delivery error raised after the retries
\* are exhausted, and whatever fails before delivery, the run reaches the
\* delivery step.
C10_Original ==
  exit_code = 1 =>
    /\ error = "delivery"
    /\ Len(mail_log) = 2 * MAIL_ATTEMPTS
    /\ html # <<>>

(***************************************************************************)
(* C11                                                                     *)
(***************************************************************************)

\* The items each section has accepted: those filed under it and, for the
\* section at hand, those the loop over its candidates holds.
AcceptedPerSection ==
  [k \in 1..Len(Entries) |-> Entries[k][3]] \o
    (IF InLoop THEN <<section_items \o items>> ELSE <<>>)

\* The path of url, as it is written, contains one of parts.
PathContains(url, parts) ==
  \E k \in 1..Len(parts) : Contains(urlsplit(Chars[url]).path, Chars[parts[k]])

\* The path of url, lower-cased, contains one of parts.
LowerPathContains(url, parts) ==
  \E k \in 1..Len(parts) : Contains(Lower(urlsplit(Chars[url]).path), Chars[parts[k]])

\* For each string, the HTML-sourced sections whose rule it passes under test.
PassesTable(test(_, _)) ==
  Tabulated([u \in DOMAIN Chars |->
               {s \in 1..NSections :
                  IsHtml(s) /\ test(u, SECTIONS[s].conf.path_must_include)}])

PathContainsTable == PassesTable(PathContains)

LowerPathContainsTable == PassesTable(LowerPathContains)

\* Every item of every HTML-sourced section of accepted passes its
\* section's rule, by the table.
EveryHtmlItem(accepted, table) ==
  \A s \in 1..Len(accepted) :
    IsHtml(s) => \A k \in 1..Len(accepted[s]) : s \in table[accepted[s][k][2]]

\* C11 as the spec states it: no item accepted by an HTML-sourced section has
\* a URL whose path contains none of the section's required substrings.
C11_Original == EveryHtmlItem(AcceptedPerSection, PathContainsTable)

\* C11: at every moment of a run, every item accepted by an HTML-sourced
\* section, filed or still held by the loop, has a URL whose path, once
\* lower-cased, contains at least one of the section's required substrings,
\* whichever fetch strategy returned the candidate.
C11_MembershipFiltering == EveryHtmlItem(AcceptedPerSection, LowerPathContainsTable)

\* The rendered fetch returned a sports link, a link under /POLITICA/ and one
\* under /politica/; the loop examined the three and accepted the last two.
C11_Witness ==
  /\ pc = "collect"
  /\ sec = 1
  /\ calls[1] = <<"requests", "selenium">>
  /\ idx = 4
  /\ Len(raw_links) = 3
  /\ raw_links[1][2] = "https://www.estadao.com.br/esportes/futebol"
  /\ TitleLink(section_items) =
       << <<"Congresso derruba veto presidencial",
            "https://www.estadao.com.br/POLITICA/veto">>,
          <<"Câmara aprova reforma tributária",
            "https://www.estadao.com.br/politica/camara">> >>

(***************************************************************************)
(* C12                                                                     *)
(***************************************************************************)

\* Candidate c collides with nothing the Deduper holds now.
NovelNow(c) ==
  /\ normalize_url(c[2]) \notin seen_urls
  /\ \A i \in 1..Len(titles) : ~AtLeastThreshold(title_similarity(titles[i], c[1]))

\* The download of link gives no text, or a text no sentence of which is
\* long enough for the summary.
NoSummaryFor(link) ==
  \/ link \notin DOMAIN ARTICLES
  \/ LongParts(Chars[ARTICLES[link]]) = <<>>

\* The loop of collect_section_items examines a candidate that passes the
\* membership rule and the Deduper.
AcceptsCandidate ==
  /\ pc = "collect"
  /\ idx' = idx + 1
  /\ Matches(raw_links[idx])
  /\ NovelNow(raw_links[idx])

\* C12: whenever collect_section_items examines a candidate that passes the
\* membership rule and the dedup check, the candidate is appended to the
\* section's accepted list in that step, with the summary "" when its
\* download gave no text or its text gave no summary; and a list that has
\* reached the quota, items with an empty summary included, ends the loop.
C12_EmptySafeEnrichment ==
  [][ /\ AcceptsCandidate =>
           /\ Len(section_items') = Len(section_items) + 1
           /\ IsPrefix(section_items, section_items')
           /\ <<Last(section_items')[1], Last(section_items')[2]>> = raw_links[idx]
           /\ NoSummaryFor(raw_links[idx][2]) => Last(section_items')[3] = ""
      /\ (pc = "collect" /\ Len(section_items) >= WANT_PER_SECTION) =>
           (pc' # "collect" /\ sec' = sec + 1) ]_vars

\* The section holds its four items, two of them with an empty summary: one
\* whose page has only short sentences and one whose download failed.
C12_Witness ==
  /\ pc = "collect"
  /\ Len(section_items) = WANT_PER_SECTION
  /\ \E i, j \in 1..WANT_PER_SECTION :
       /\ section_items[i][3] = "" /\ section_items[i][2] \in DOMAIN ARTICLES
       /\ section_items[j][3] = "" /\ section_items[j][2] \notin DOMAIN ARTICLES
  /\ \E k \in 1..WANT_PER_SECTION : section_items[k][3] # ""

(***************************************************************************)
(* The pure functions on their own: one call of one of them, on any        *)
(* arguments of a pool.                                                    *)
(***************************************************************************)

\* The elements of the sequences of a set.
ElementsOf(seqs) == UNION {{q[i] : i \in 1..Len(q)} : q \in seqs}

\* The titles compared: those of every anchor and feed entry of the pools,
\* as the page carries them, a title of stopwords and one of punctuation.
TitlePool ==
  {a.text : a \in PoliticaPool \cup EconomiaPool
                    \cup ElementsOf(PoliticaLong \cup EconomiaLong)}
    \cup {n.title : n \in FeedPool \cup ElementsOf(FeedLong)}
    \cup {"O que é?", "!!!"}

\* No function was called yet.
NotCalled == called = "none"

\* title_similarity(a, b)
CallSimilarity ==
  /\ NotCalled
  /\ \E a, b \in TitlePool :
       /\ args' = <<a, b>>
       /\ result' = title_similarity(a, b)
  /\ called' = "title_similarity"
  /\ UNCHANGED <<pc, processVars, sec, calls, loopVars, resultVars, dedupVars,
                 mailVars, fed, answers>>

\* The URLs normalised: every spelling of a host and a path, by the parts
\* it is written with; host is the host in lower case and path the path
\* with no trailing slash.
HostSpellings ==
  ("example.com" :> {"example.com", "Example.com"}) @@
  ("estadao.com.br" :> {"estadao.com.br"})

UrlForms ==
  UNION {[scheme : {"http", "https"}, www : BOOLEAN, host : {h},
          spelled : HostSpellings[h], path : {"", "/a/b", "/a/B"},
          slash : BOOLEAN, query : {"", "utm=x"}, fragment : {"", "top"}] :
           h \in DOMAIN HostSpellings}

\* The URL as it is written.
Written(f) ==
  Chars[f.scheme] \o <<":", "/", "/">>
    \o (IF f.www THEN Chars["www."] ELSE <<>>) \o Chars[f.spelled]
    \o Chars[f.path] \o (IF f.slash THEN <<"/">> ELSE <<>>)
    \o (IF f.query = "" THEN <<>> ELSE <<"?">> \o Chars[f.query])
    \o (IF f.fragment = "" THEN <<>> ELSE <<"#">> \o Chars[f.fragment])

KeyOf == Tabulated([f \in UrlForms |-> Str(normalize_url_chars(Written(f)))])

\* normalize_url(u) and normalize_url(v)
CallNormalizeUrl ==
  /\ NotCalled
  /\ \E u, v \in UrlForms :
       /\ args' = <<u, v>>
       /\ result' = <<KeyOf[u], KeyOf[v]>>
  /\ called' = "normalize_url"
  /\ UNCHANGED <<pc, processVars, sec, calls, loopVars, resultVars, dedupVars,
                 mailVars, fed, answers>>

\* The largest scan limit _filter_links is called with.
MaxScan == 3

\* The pages filtered: those of the runs, and one with a title of 19
\* characters between blanks, two spellings of one URL, a repeated link and
\* denylisted links among links that survive.
FilterPages(s) ==
  Pages(s) \cup
    {<<aCurto, aCamara, aLogin, aCamaraAbs, aStf, aFrag, aSenado, aStf, aGoverno>>}

\* _filter_links(url_base, soup, scan_limit)
CallFilterLinks ==
  /\ NotCalled
  /\ \E s \in {t \in 1..NSections : IsHtml(t)}, limit \in 1..MaxScan :
       \E page \in FilterPages(s) :
         /\ args' = <<SECTIONS[s].conf.url, page, limit>>
         /\ result' = _filter_links(SECTIONS[s].conf.url, page, limit)
  /\ called' = "_filter_links"
  /\ UNCHANGED <<pc, processVars, sec, calls, loopVars, resultVars, dedupVars,
                 mailVars, fed, answers>>

NextCalls ==
  \/ CallSimilarity
  \/ CallNormalizeUrl
  \/ CallFilterLinks

SpecCalls == Init /\ [][NextCalls]_vars

(***************************************************************************)
(* C13                                                                     *)
(***************************************************************************)

\* The fraction sim is 0, is 1, is between 0 and 1.
IsZero(sim) == sim[1] = 0 /\ sim[2] > 0

IsOne(sim) == sim[1] = sim[2] /\ sim[2] > 0

InUnitInterval(sim) == 0 <= sim[1] /\ sim[1] <= sim[2] /\ sim[2] > 0

\* C13 as the spec states it: the similarity is symmetric, lies between 0
\* and 1, and is 1 between any non-empty title and itself.
C13_Original ==
  called = "title_similarity" =>
    /\ result = title_similarity(args[2], args[1])
    /\ InUnitInterval(result)
    /\ (args[1] = args[2] /\ args[1] # "") => IsOne(result)

\* C13: for all titles a and b, title_similarity(a, b) equals
\* title_similarity(b, a) and lies between 0 and 1; title_similarity(a, a)
\* is 1 for every title a that has at least one token which is not a
\* stopword, and 0 for a title that has none.
C13_SimilarityLaws ==
  called = "title_similarity" =>
    /\ result = title_similarity(args[2], args[1])
    /\ InUnitInterval(result)
    /\ args[1] = args[2] =>
         IF tokenize_title(args[1]) # {} THEN IsOne(result) ELSE IsZero(result)

\* Two different titles that share three of their four tokens.
C13_Witness ==
  /\ called = "title_similarity"
  /\ args = <<"Selic sobe para 10%", "Selic sobe para 10% ao ano">>
  /\ result = <<3, 4>>

(***************************************************************************)
(* C14                                                                     *)
(***************************************************************************)

\* C14: normalize_url gives two URLs the same key when they are written
\* with the same host, up to letter case and a leading "www.", and the same
\* path, up to a trailing slash, whatever their scheme, query string and
\* fragment; and gives them different keys when that host or that path
\* differ.
C14_CanonicalEquivalence ==
  called = "normalize_url" =>
    (result[1] = result[2] <=>
       (args[1].host = args[2].host /\ args[1].path = args[2].path))

\* The keys of https://www.Example.com/a/b/?utm=x#top and
\* http://example.com/a/b.
C14_Witness ==
  /\ called = "normalize_url"
  /\ args[1] = [scheme |-> "https", www |-> TRUE, host |-> "example.com",
                spelled |-> "Example.com", path |-> "/a/b", slash |-> TRUE,
                query |-> "utm=x", fragment |-> "top"]
  /\ args[2] = [scheme |-> "http", www |-> FALSE, host |-> "example.com",
                spelled |-> "example.com", path |-> "/a/b", slash |-> FALSE,
                query |-> "", fragment |-> ""]
  /\ result = <<"//example.com/a/b", "//example.com/a/b">>

(***************************************************************************)
(* C15                                                                     *)
(***************************************************************************)

\* enviar_email has returned after a transport accepted the message.
Delivered == sent > 0

\* C15: within each cycle of enviar_email STARTTLS is attempted only after
\* the SSL attempt of that cycle failed; the step in which a transport
\* accepts the message returns at once without error, backoff or further
\* cycle, and after it no transport is attempted and no backoff slept, so
\* that the message is accepted at most once; and a cycle starts only after
\* both transports of every earlier cycle failed, each followed by its
\* backoff.
C15_DeliverySuccessPath ==
  /\ [](/\ sent <= 1
        /\ Delivered => (pc \in {"finally", "exit", "done"} /\ error = "none")
        /\ pc = "tls" =>
             /\ ~Delivered
             /\ Len(mail_log) = 2 * attempt - 1
             /\ Last(mail_log) = "ssl"
        /\ pc = "ssl" =>
             /\ ~Delivered
             /\ Len(mail_log) = 2 * (attempt - 1)
             /\ Len(sleeps) = attempt - 1
             /\ Alternates(mail_log))
  /\ [][ /\ sent' # sent =>
              /\ pc \in {"ssl", "tls"}
              /\ pc' = "finally"
              /\ error' = "none"
              /\ sleeps' = sleeps
              /\ attempt' = attempt
         /\ Delivered => UNCHANGED mailVars
         /\ (mail_log' # mail_log /\ Last(mail_log') = "starttls") => pc = "tls"
         /\ (attempt' # attempt /\ attempt >= 1) =>
              /\ pc = "tls"
              /\ Last(mail_log') = "starttls"
              /\ sleeps' = Append(sleeps, Backoff(attempt))
              /\ ~Delivered' ]_vars

\* The message went out over STARTTLS in the second cycle, after one backoff,
\* and the process ended with status 0.
C15_Witness ==
  /\ pc = "done"
  /\ exit_code = 0
  /\ sent = 1
  /\ mail_log = <<"ssl", "starttls", "ssl", "starttls">>
  /\ sleeps = <<2>>

(***************************************************************************)
(* C16                                                                     *)
(***************************************************************************)

\* No list of accepted holds more than want items.
AtMost(accepted, want) == \A s \in 1..Len(accepted) : Len(accepted[s]) <= want

\* C16: at every moment of a run no section, HTML-sourced or feed-sourced,
\* holds or has filed more than WANT_PER_SECTION items; and once the loop
\* over a section's candidates holds WANT_PER_SECTION items the very next
\* step files the section: no further candidate is examined and the Deduper
\* is not consulted again for that section.
C16_QuotaCap ==
  /\ [](AtMost(AcceptedPerSection, WANT_PER_SECTION))
  /\ [][ (InLoop /\ Len(CurrentItems) >= WANT_PER_SECTION) =>
           /\ sec' = sec + 1
           /\ Len(Entries') = Len(Entries) + 1
           /\ TitleLink(Last(Entries')[3]) = CurrentItems
           /\ UNCHANGED dedupVars ]_vars

\* A feed section holds its four items with a fifth entry of the feed left
\* unexamined, after a page section that filed four items.
C16_Witness ==
  /\ pc = "rss_loop"
  /\ sec = 3
  /\ Len(items) = WANT_PER_SECTION
  /\ idx <= Len(raw_links)
  /\ Len(Entries[1][3]) = WANT_PER_SECTION

(***************************************************************************)
(* C17                                                                     *)
(***************************************************************************)

\* The items rotina has tagged: those of the sections filed and those the
\* loop over a feed holds, each as (title, link, summary).
TaggedItems ==
  {<<it[1], it[2], it[3]>> :
     it \in ElementsOf({Entries[k][3] : k \in 1..Len(Entries)} \cup {items})}

InBucket(it) == \E k \in 1..Len(health_bucket) : health_bucket[k] = it

\* The title and the summary, as one normalised text, contain a keyword.
TopicalText(title, summary) ==
  \E k \in HEALTH_KEYWORDS :
    Contains(normalize_kw_chars(Chars[title] \o <<" ">> \o Chars[summary]),
             normalize_kw_chars(Chars[k]))

\* C17 as the spec states it: an accepted item is in the health bucket if
\* and only if its normalised title and summary text contains a keyword.
C17_Original ==
  \A it \in TaggedItems : InBucket(it) <=> TopicalText(it[1], it[3])

(***************************************************************************)
(* C18                                                                     *)
(***************************************************************************)

\* The entry the i-th anchor of page stands for: its text without the
\* blanks around it, and its href resolved against base.
EntryOf(base, page, i) ==
  <<Str(Strip(Chars[page[i].text])),
    IF page[i].href = "" THEN "" ELSE urljoin(base, page[i].href)>>

\* The entries of page, one per anchor, in page order.
EntriesOfPage(base, page) == [i \in 1..Len(page) |-> EntryOf(base, page, i)]

\* s is a subsequence of t: the elements of s are elements of t, in the
\* order of t.
RECURSIVE IsSubsequence(_, _)
IsSubsequence(s, t) ==
  IF s = <<>> THEN TRUE
  ELSE IF t = <<>> THEN FALSE
  ELSE IF Head(s) = Head(t) THEN IsSubsequence(Tail(s), Tail(t))
  ELSE IsSubsequence(s, Tail(t))

Mirrors(acc) ==
  /\ titles = [k \in 1..Len(acc) |-> acc[k][1]]
  /\ seen_urls = {normalize_url(acc[k][2]) : k \in 1..Len(acc)}

\* C19: at every moment of a run Deduper.titles is the sequence of the
\* titles of the items accepted so far, in the order of acceptance across
\* all sections, and seen_urls is the set of their canonical URLs; a step
\* that examines a candidate failing the membership rule, and the step that
\* follows the section's quota-th acceptance, leave the Deduper and the
\* accepted items as they are.
C19_DedupMirrorsResult ==
  /\ [](Mirrors(AcceptedSoFar))
  /\ [][ /\ (Examines /\ ~Matches(raw_links[idx])) =>
              (UNCHANGED dedupVars /\ AcceptedSoFar' = AcceptedSoFar)
         /\ (InLoop /\ Len(CurrentItems) >= WANT_PER_SECTION) =>
              (UNCHANGED dedupVars /\ AcceptedSoFar' = AcceptedSoFar) ]_vars

\* The page section examined a sports link and accepted the two links after
\* it; the feed section has accepted four entries and leaves a fifth one
\* unexamined: the Deduper holds the six titles.
C19_Witness ==
  /\ pc = "rss_loop"
  /\ sec = 3
  /\ TitleLink(Entries[1][3]) =
       << <<"Congresso derruba veto presidencial",
            "https://www.estadao.com.br/POLITICA/veto">>,
          <<"Câmara aprova reforma tributária",
            "https://www.estadao.com.br/politica/camara">> >>
  /\ Entries[2][3] = <<>>
  /\ Len(items) = WANT_PER_SECTION
  /\ idx <= Len(raw_links)
  /\ Len(titles) = 2 + WANT_PER_SECTION

(***************************************************************************)
(* C20                                                                     *)
(***************************************************************************)

\* C20: after any sequence of is_dup calls on one Deduper, seen_urls has as
\* many elements as titles has entries; and a call records a title exactly
\* when it adds a key: the title is the call's title, appended at the end,
\* and the key is the one canonical URL of the call, which seen_urls did not
\* hold before.
C20_DedupStateConsistency ==
  /\ [](Cardinality(seen_urls) = Len(titles))
  /\ [][ /\ titles' # titles <=> seen_urls' # seen_urls
         /\ titles' # titles =>
              /\ titles' = Append(titles, Last(fed')[1])
              /\ seen_urls' \ seen_urls = {normalize_url(Last(fed')[2])}
              /\ seen_urls \subseteq seen_urls' ]_vars

\* Four calls on one Deduper: the second pair is rejected for its URL, the
\* third for its title, the first and the fourth are recorded.
C20_Witness ==
  /\ fed = << <<"Câmara aprova reforma tributária",
                "https://www.estadao.com.br/politica/camara">>,
              <<"Veja como votou cada deputado",
                "http://ESTADAO.com.br/politica/camara/?utm=x">>,
              <<"Camara aprova a reforma tributaria",
                "http://estadao.com.br/politica/camara-2">>,
              <<"Selic sobe para 10%", "https://www.nytimes.com/world/selic">> >>
  /\ answers = <<FALSE, TRUE, TRUE, FALSE>>
  /\ Len(titles) = 2
  /\ Cardinality(seen_urls) = 2

(***************************************************************************)
(* C21                                                                     *)
(***************************************************************************)

\* The run as a sequential program: every call it makes returns or raises
\* within its timeout (requests 20 s and 25 s, page load 90 s, element wait
\* 15 s, SMTP 30 s), so a step that can be taken is taken.
SpecLive == Init /\ [][Next]_vars /\ WF_vars(Next)

\* get_driver() has returned.
Acquired == driver # "none"

\* The run was stopped by the schedule gate.
GateStopped == pc \in {"exit", "done"} /\ ~Acquired /\ error = "none"

\* Nothing of a run has happened: no fetch, no Deduper entry, no digest, no
\* delivery attempt, no driver.quit().
NothingDone ==
  /\ \A s \in 1..NSections : calls[s] = <<>>
  /\ seen_urls = {}
  /\ titles = <<>>
  /\ AcceptedSoFar = <<>>
  /\ html = <<>>
  /\ attempt = 0
  /\ mail_log = <<>>
  /\ sent = 0
  /\ quit_calls = 0

\* C21: in every run in which get_driver() returned, driver.quit() is
\* eventually called, it is called before the run leaves rotina and never
\* more than once, also when delivery fails after its three cycles; and a
\* run stopped by the schedule gate never acquires the driver and makes no
\* fetch, no dedup call and no delivery attempt.
C21_DriverRelease ==
  /\ [](/\ quit_calls <= 1
        /\ quit_calls = 1 <=> driver = "quit"
        /\ (pc \in {"exit", "done"} /\ Acquired) => quit_calls = 1
        /\ error = "delivery" => Acquired
        /\ (pc = "gate" \/ GateStopped) => NothingDone)
  /\ (driver = "open") ~> (driver = "quit" /\ quit_calls = 1)
  /\ [][ /\ (pc = "gate" /\ pc' = "exit") => GateStopped'
         /\ GateStopped => (GateStopped' /\ ~Acquired') ]_vars

\* Delivery failed after its three cycles, the driver was quit once and the
\* process ended with status 1, with every section filed.
C21_Witness ==
  /\ pc = "done"
  /\ exit_code = 1
  /\ error = "delivery"
  /\ sleeps = <<2, 4, 6>>
  /\ driver = "quit"
  /\ quit_calls = 1
  /\ Len(Entries) = NSections
=============================================================================
